---- MODULE Spec2Model ----
(***************************************************************************)
(* A model of the minesweeper board engine (src/src/minesweeper.rs):       *)
(* GameBoard with its mine placement loop, numeral computation and the     *)
(* play operations flag / reveal / cascade_from / chord / revealchord;     *)
(* of the leaderboards (src/src/leader.rs); and of the application that    *)
(* drives both, frame by frame (src/src/app.rs).                           *)
(***************************************************************************)
EXTENDS Integers, Sequences, FiniteSets, Bags, TLC

\* ------------------------------------------------------------------ bounds
NumW == 3        \* widest board of the numeral specification
NumH == 3        \* tallest board of the numeral specification
MaxW == 4        \* widest board of the placement specification
MaxH == 3        \* tallest board of the placement specification
MaxMines == 2    \* largest mine count requested from populate_mines_around
PlayCells == 4   \* largest width*height of a board of the play specification
PlayMines == 2   \* largest number of mines on a board of the play specification
CallCells == 2   \* largest width*height of a board of the call specification
CallMines == 1   \* largest number of mines on a board of the call specification
LeaderAdds == 26  \* largest number of LeaderBoards::add calls of the leaderboard specification
AppW == 4         \* width of the one-row board of the application specification
AppGames == 1     \* largest number of games started in the application specification
AppClock == 2     \* latest time the clock of the application specification reaches

\* ------------------------------------------------------- program constants
MAX_ENTRIES_PER_BOARD == 25

\* ------------------------------------------------------------------ state
VARIABLES
  width,        \* GameBoard.width
  height,       \* GameBoard.height
  num_mines,    \* GameBoard.num_mines
  squares,      \* GameBoard.squares : 0..width*height-1 -> Square
  is_populated, \* GameBoard.is_populated
  pc,           \* "idle", or "placing" inside the while loop of populate_mines_around
  mines_placed, \* the local mines_placed of populate_mines_around
  keep_clear,   \* the keep_clear argument of the running populate_mines_around
  call,         \* the last operation invoked, with its arguments
  result,       \* what that operation returned
  game_state,       \* MinesOfRustApp.game_state
  game_started,     \* MinesOfRustApp.game_started
  game_finished,    \* MinesOfRustApp.game_finished
  wins,             \* MinesOfRustApp.wins
  losses,           \* MinesOfRustApp.losses
  leaderboards,     \* MinesOfRustApp.leaderboards : tier -> sequence of Entry
  detonated_on,     \* MinesOfRustApp.detonated_on
  difficulty,       \* MinesOfRustApp.state.difficulty
  left_click_chord, \* MinesOfRustApp.state.left_click_chord
  clock,            \* the system clock, what now() returns
  added,            \* history: tier -> the bag of the times ever added to it
  start_time,       \* history: what now() returned in the last start_game
  paused_for        \* history: the time spent in Paused since the last start_game

app_vars == <<game_state, game_started, game_finished, wins, losses, leaderboards,
              detonated_on, difficulty, left_click_chord, clock, added, start_time,
              paused_for>>

vars == <<width, height, num_mines, squares, is_populated,
          pc, mines_placed, keep_clear, call, result,
          game_state, game_started, game_finished, wins, losses, leaderboards,
          detonated_on, difficulty, left_click_chord, clock, added, start_time,
          paused_for>>

\* ------------------------------------------------------------------ values
None == [some |-> FALSE]
Some(c) == [some |-> TRUE, c |-> c]

Ok(v) == [ok |-> TRUE, v |-> v]
Err(e) == [ok |-> FALSE, e |-> e]
\* the operation is still running: nothing returned yet
Pending == [ok |-> FALSE, e |-> "pending"]

\* PlayResult
NoChange == [t |-> "NoChange"]
Flagged(b) == [t |-> "Flagged", b |-> b]
Explosion(x, y) == [t |-> "Explosion", x |-> x, y |-> y]
Revealed(x, y) == [t |-> "Revealed", x |-> x, y |-> y]
CascadedReveal(v) == [t |-> "CascadedReveal", v |-> v]

\* Square::default() and Square::default_mine()
default_square ==
  [is_revealed |-> FALSE, is_flagged |-> FALSE, numeral |-> 0, square_type |-> "Empty"]
default_mine ==
  [is_revealed |-> FALSE, is_flagged |-> FALSE, numeral |-> 0, square_type |-> "Mine"]

is_mine(s) == s.square_type = "Mine"

\* GameBoard::new : width*height default squares
new_squares(w, h) == [i \in 0 .. (w * h - 1) |-> default_square]

\* ------------------------------------------------------------------ helpers
xy_to_idx(x, y) == y * width + x

Cells == (0 .. (width - 1)) \X (0 .. (height - 1))

\* mutant: the second range is the outer loop
Offsets_dy_outer == << <<-1, -1>>, << 0, -1>>, << 1, -1>>,
                       <<-1, 0>>,  << 0, 0>>,  << 1, 0>>,
                       <<-1, 1>>,  << 0, 1>>,  << 1, 1>> >>

\* the order in which iproduct!(-1..2, -1..2) yields (dx, dy): the first range
\* is the outer loop
Offsets == << <<-1, -1>>, <<-1, 0>>, <<-1, 1>>,
              << 0, -1>>, << 0, 0>>, << 0, 1>>,
              << 1, -1>>, << 1, 0>>, << 1, 1>> >>

get_square(sq, x, y) ==
  IF x >= width \/ y >= height THEN Err("InvalidCoordinates")
  ELSE Ok(sq[xy_to_idx(x, y)])

is_mine_protected(sq, x, y) ==
  IF x < 0 THEN FALSE
  ELSE IF y < 0 THEN FALSE
  ELSE LET g == get_square(sq, x, y) IN IF g.ok THEN is_mine(g.v) ELSE FALSE

is_flagged_protected(sq, x, y) ==
  IF x < 0 THEN FALSE
  ELSE IF y < 0 THEN FALSE
  ELSE LET g == get_square(sq, x, y) IN IF g.ok THEN g.v.is_flagged ELSE FALSE

RECURSIVE SumSeq(_)
SumSeq(s) == IF s = <<>> THEN 0 ELSE Head(s) + SumSeq(Tail(s))

flagged_neighbor_count(sq, x, y) ==
  IF x >= width \/ y >= height THEN Err("InvalidCoordinates")
  ELSE Ok(SumSeq([i \in 1 .. 9 |->
         IF is_flagged_protected(sq, x + Offsets[i][1], y + Offsets[i][2]) THEN 1 ELSE 0]))

\* mutant: the scan stops one column short (dx over -1..1 exclusive of +1)
mined_neighbor_count_short(sq, x, y) ==
  IF x >= width \/ y >= height THEN Err("InvalidCoordinates")
  ELSE Ok(SumSeq([i \in 1 .. 6 |->
         IF is_mine_protected(sq, x + Offsets[i][1], y + Offsets[i][2]) THEN 1 ELSE 0]))

mined_neighbor_count(sq, x, y) ==
  IF x >= width \/ y >= height THEN Err("InvalidCoordinates")
  ELSE Ok(SumSeq([i \in 1 .. 9 |->
         IF is_mine_protected(sq, x + Offsets[i][1], y + Offsets[i][2]) THEN 1 ELSE 0]))

\* mutant: the squares are written anew, covered, with their numeral
populate_numerals_covers(sq) ==
  [i \in DOMAIN sq |->
     LET x == i % width
         y == i \div width
         c == mined_neighbor_count(sq, x, y)
     IN [sq[i] EXCEPT !.numeral = IF c.ok THEN c.v ELSE 0, !.is_revealed = FALSE]]

\* populate_numerals: every square's numeral becomes mined_neighbor_count(..).unwrap_or(0).
\* The count reads only square_type, which the loop does not write, so the
\* order of the loop does not matter.
populate_numerals(sq) ==
  [i \in DOMAIN sq |->
     LET x == i % width
         y == i \div width
         c == mined_neighbor_count(sq, x, y)
     IN [sq[i] EXCEPT !.numeral = IF c.ok THEN c.v ELSE 0]]

\* Coordinate::distance is sqrt(dx^2 + dy^2); distance2 is its square, exact on
\* integer coordinates
distance2(a, b) == (a[1] - b[1]) * (a[1] - b[1]) + (a[2] - b[2]) * (a[2] - b[2])

\* mutant: the exclusion radius is 1.0, which leaves the diagonal neighbours out
near_radius_one(a, b) == distance2(a, b) <= 1

\* Coordinate::near : distance <= 1.5, that is distance^2 <= 9/4
near(a, b) == 4 * distance2(a, b) <= 9

\* ------------------------------------------------------------------ play
\* The operations that mutate the board return [sq |-> the squares afterwards,
\* r |-> the value returned].
RECURSIVE reveal(_, _, _), reveal_scan(_, _, _)

\* Result::unwrap_or(PlayResult::NoChange) on the outcome rv of a play
unwrap_or_NoChange(rv) == [sq |-> rv.sq, r |-> IF rv.r.ok THEN rv.r.v ELSE NoChange]

reveal_protected(sq, x, y) ==
  CASE x < 0 -> [sq |-> sq, r |-> NoChange]
    [] x >= 0 /\ y < 0 -> [sq |-> sq, r |-> NoChange]
    [] OTHER -> unwrap_or_NoChange(reveal(sq, x, y))

\* mutant: the scan stops one column short (dx over -1..1 exclusive of +1)
reveal_scan_short(sq, x, y) ==
  LET r1 == reveal_protected(sq, x + Offsets[1][1], y + Offsets[1][2])
      r2 == reveal_protected(r1.sq, x + Offsets[2][1], y + Offsets[2][2])
      r3 == reveal_protected(r2.sq, x + Offsets[3][1], y + Offsets[3][2])
      r4 == reveal_protected(r3.sq, x + Offsets[4][1], y + Offsets[4][2])
      r5 == reveal_protected(r4.sq, x + Offsets[5][1], y + Offsets[5][2])
      r6 == reveal_protected(r5.sq, x + Offsets[6][1], y + Offsets[6][2])
  IN [r |-> <<r1.r, r2.r, r3.r, r4.r, r5.r, r6.r>>, sq |-> r6.sq]

\* iproduct!(-1..2, -1..2).map(|(dx, dy)| self.reveal_protected(x + dx, y + dy)).collect():
\* the nine calls run in the order of Offsets, each on the board the previous left
reveal_scan(sq, x, y) ==
  LET r1 == reveal_protected(sq, x + Offsets[1][1], y + Offsets[1][2])
      r2 == reveal_protected(r1.sq, x + Offsets[2][1], y + Offsets[2][2])
      r3 == reveal_protected(r2.sq, x + Offsets[3][1], y + Offsets[3][2])
      r4 == reveal_protected(r3.sq, x + Offsets[4][1], y + Offsets[4][2])
      r5 == reveal_protected(r4.sq, x + Offsets[5][1], y + Offsets[5][2])
      r6 == reveal_protected(r5.sq, x + Offsets[6][1], y + Offsets[6][2])
      r7 == reveal_protected(r6.sq, x + Offsets[7][1], y + Offsets[7][2])
      r8 == reveal_protected(r7.sq, x + Offsets[8][1], y + Offsets[8][2])
      r9 == reveal_protected(r8.sq, x + Offsets[9][1], y + Offsets[9][2])
  IN [r |-> <<r1.r, r2.r, r3.r, r4.r, r5.r, r6.r, r7.r, r8.r, r9.r>>, sq |-> r9.sq]

\* Ok(PlayResult::CascadedReveal(results)) for the outcome sc of the scan
collected(sc) == [sq |-> sc.sq, r |-> Ok(CascadedReveal(sc.r))]

\* mutant: the cascade reveals its own square and scans no neighbour
cascade_from_no_scan(sq, x, y) ==
  CASE x >= width \/ y >= height -> [sq |-> sq, r |-> Err("InvalidCoordinates")]
    [] x < width /\ y < height
       /\ (\/ is_mine(sq[xy_to_idx(x, y)])
           \/ sq[xy_to_idx(x, y)].is_flagged
           \/ sq[xy_to_idx(x, y)].numeral > 0) -> [sq |-> sq, r |-> Err("InvalidCascade")]
    [] OTHER ->
       [sq |-> [sq EXCEPT ![xy_to_idx(x, y)].is_revealed = TRUE],
        r |-> Ok(CascadedReveal(<<>>))]

\* mutant: the numeral of the square is not tested
cascade_from_any_numeral(sq, x, y) ==
  CASE x >= width \/ y >= height -> [sq |-> sq, r |-> Err("InvalidCoordinates")]
    [] x < width /\ y < height
       /\ (\/ is_mine(sq[xy_to_idx(x, y)])
           \/ sq[xy_to_idx(x, y)].is_flagged) -> [sq |-> sq, r |-> Err("InvalidCascade")]
    [] OTHER ->
       collected(reveal_scan([sq EXCEPT ![xy_to_idx(x, y)].is_revealed = TRUE], x, y))

cascade_from(sq, x, y) ==
  CASE x >= width \/ y >= height -> [sq |-> sq, r |-> Err("InvalidCoordinates")]
    [] x < width /\ y < height
       /\ (\/ is_mine(sq[xy_to_idx(x, y)])
           \/ sq[xy_to_idx(x, y)].is_flagged
           \/ sq[xy_to_idx(x, y)].numeral > 0) -> [sq |-> sq, r |-> Err("InvalidCascade")]
    [] OTHER ->
       collected(reveal_scan([sq EXCEPT ![xy_to_idx(x, y)].is_revealed = TRUE], x, y))

\* mutant: the detonated mine is reported but not marked revealed
reveal_explosion_unmarked(sq, x, y) ==
  CASE x >= width \/ y >= height -> [sq |-> sq, r |-> Err("InvalidCoordinates")]
    [] x < width /\ y < height
       /\ is_mine(sq[xy_to_idx(x, y)]) /\ ~sq[xy_to_idx(x, y)].is_flagged ->
         \* a mine that is not flagged (unprotected)
         [sq |-> sq, r |-> Ok(Explosion(x, y))]
    [] x < width /\ y < height
       /\ ~is_mine(sq[xy_to_idx(x, y)]) /\ ~sq[xy_to_idx(x, y)].is_flagged
       /\ ~sq[xy_to_idx(x, y)].is_revealed /\ sq[xy_to_idx(x, y)].numeral = 0 ->
         \* not a mine, unflagged, unrevealed, no numeral: cascade
         cascade_from(sq, x, y)
    [] x < width /\ y < height
       /\ ~is_mine(sq[xy_to_idx(x, y)]) /\ ~sq[xy_to_idx(x, y)].is_flagged
       /\ ~sq[xy_to_idx(x, y)].is_revealed /\ sq[xy_to_idx(x, y)].numeral # 0 ->
         [sq |-> [sq EXCEPT ![xy_to_idx(x, y)].is_revealed = TRUE], r |-> Ok(Revealed(x, y))]
    [] OTHER -> [sq |-> sq, r |-> Ok(NoChange)]

\* mutant: a flag does not protect a mine
reveal_ignores_flag(sq, x, y) ==
  CASE x >= width \/ y >= height -> [sq |-> sq, r |-> Err("InvalidCoordinates")]
    [] x < width /\ y < height
       /\ is_mine(sq[xy_to_idx(x, y)]) ->
         \* a mine that is not flagged (unprotected)
         [sq |-> [sq EXCEPT ![xy_to_idx(x, y)].is_revealed = TRUE], r |-> Ok(Explosion(x, y))]
    [] x < width /\ y < height
       /\ ~is_mine(sq[xy_to_idx(x, y)]) /\ ~sq[xy_to_idx(x, y)].is_flagged
       /\ ~sq[xy_to_idx(x, y)].is_revealed /\ sq[xy_to_idx(x, y)].numeral = 0 ->
         \* not a mine, unflagged, unrevealed, no numeral: cascade
         cascade_from(sq, x, y)
    [] x < width /\ y < height
       /\ ~is_mine(sq[xy_to_idx(x, y)]) /\ ~sq[xy_to_idx(x, y)].is_flagged
       /\ ~sq[xy_to_idx(x, y)].is_revealed /\ sq[xy_to_idx(x, y)].numeral # 0 ->
         [sq |-> [sq EXCEPT ![xy_to_idx(x, y)].is_revealed = TRUE], r |-> Ok(Revealed(x, y))]
    [] OTHER -> [sq |-> sq, r |-> Ok(NoChange)]

\* mutant: a numbered square is reported Revealed even when it already was
reveal_numbered_again(sq, x, y) ==
  CASE x >= width \/ y >= height -> [sq |-> sq, r |-> Err("InvalidCoordinates")]
    [] x < width /\ y < height
       /\ is_mine(sq[xy_to_idx(x, y)]) /\ ~sq[xy_to_idx(x, y)].is_flagged ->
         \* a mine that is not flagged (unprotected)
         [sq |-> [sq EXCEPT ![xy_to_idx(x, y)].is_revealed = TRUE], r |-> Ok(Explosion(x, y))]
    [] x < width /\ y < height
       /\ ~is_mine(sq[xy_to_idx(x, y)]) /\ ~sq[xy_to_idx(x, y)].is_flagged
       /\ ~sq[xy_to_idx(x, y)].is_revealed /\ sq[xy_to_idx(x, y)].numeral = 0 ->
         \* not a mine, unflagged, unrevealed, no numeral: cascade
         cascade_from(sq, x, y)
    [] x < width /\ y < height
       /\ ~is_mine(sq[xy_to_idx(x, y)]) /\ ~sq[xy_to_idx(x, y)].is_flagged
       /\ sq[xy_to_idx(x, y)].numeral # 0 ->
         [sq |-> [sq EXCEPT ![xy_to_idx(x, y)].is_revealed = TRUE], r |-> Ok(Revealed(x, y))]
    [] OTHER -> [sq |-> sq, r |-> Ok(NoChange)]

\* mutant: a numbered square is reported Revealed but not marked revealed
reveal_numbered_unmarked(sq, x, y) ==
  CASE x >= width \/ y >= height -> [sq |-> sq, r |-> Err("InvalidCoordinates")]
    [] x < width /\ y < height
       /\ is_mine(sq[xy_to_idx(x, y)]) /\ ~sq[xy_to_idx(x, y)].is_flagged ->
         \* a mine that is not flagged (unprotected)
         [sq |-> [sq EXCEPT ![xy_to_idx(x, y)].is_revealed = TRUE], r |-> Ok(Explosion(x, y))]
    [] x < width /\ y < height
       /\ ~is_mine(sq[xy_to_idx(x, y)]) /\ ~sq[xy_to_idx(x, y)].is_flagged
       /\ ~sq[xy_to_idx(x, y)].is_revealed /\ sq[xy_to_idx(x, y)].numeral = 0 ->
         \* not a mine, unflagged, unrevealed, no numeral: cascade
         cascade_from(sq, x, y)
    [] x < width /\ y < height
       /\ ~is_mine(sq[xy_to_idx(x, y)]) /\ ~sq[xy_to_idx(x, y)].is_flagged
       /\ ~sq[xy_to_idx(x, y)].is_revealed /\ sq[xy_to_idx(x, y)].numeral # 0 ->
         [sq |-> sq, r |-> Ok(Revealed(x, y))]
    [] OTHER -> [sq |-> sq, r |-> Ok(NoChange)]

\* mutant: a detonated mine is replaced by an empty revealed square
reveal_defuses_mine(sq, x, y) ==
  CASE x >= width \/ y >= height -> [sq |-> sq, r |-> Err("InvalidCoordinates")]
    [] x < width /\ y < height
       /\ is_mine(sq[xy_to_idx(x, y)]) /\ ~sq[xy_to_idx(x, y)].is_flagged ->
         [sq |-> [sq EXCEPT ![xy_to_idx(x, y)] = [default_square EXCEPT !.is_revealed = TRUE]],
          r |-> Ok(Explosion(x, y))]
    [] x < width /\ y < height
       /\ ~is_mine(sq[xy_to_idx(x, y)]) /\ ~sq[xy_to_idx(x, y)].is_flagged
       /\ ~sq[xy_to_idx(x, y)].is_revealed /\ sq[xy_to_idx(x, y)].numeral = 0 ->
         cascade_from(sq, x, y)
    [] x < width /\ y < height
       /\ ~is_mine(sq[xy_to_idx(x, y)]) /\ ~sq[xy_to_idx(x, y)].is_flagged
       /\ ~sq[xy_to_idx(x, y)].is_revealed /\ sq[xy_to_idx(x, y)].numeral # 0 ->
         [sq |-> [sq EXCEPT ![xy_to_idx(x, y)].is_revealed = TRUE], r |-> Ok(Revealed(x, y))]
    [] OTHER -> [sq |-> sq, r |-> Ok(NoChange)]

\* the arms are the branches of the if / else-if chain, in order
\* mutant: a numbered square is cascaded from like a blank one
reveal_cascades_numbered(sq, x, y) ==
  CASE x >= width \/ y >= height -> [sq |-> sq, r |-> Err("InvalidCoordinates")]
    [] x < width /\ y < height
       /\ is_mine(sq[xy_to_idx(x, y)]) /\ ~sq[xy_to_idx(x, y)].is_flagged ->
         [sq |-> [sq EXCEPT ![xy_to_idx(x, y)].is_revealed = TRUE], r |-> Ok(Explosion(x, y))]
    [] x < width /\ y < height
       /\ ~is_mine(sq[xy_to_idx(x, y)]) /\ ~sq[xy_to_idx(x, y)].is_flagged
       /\ ~sq[xy_to_idx(x, y)].is_revealed ->
         cascade_from_any_numeral(sq, x, y)
    [] OTHER -> [sq |-> sq, r |-> Ok(NoChange)]

reveal(sq, x, y) ==
  CASE x >= width \/ y >= height -> [sq |-> sq, r |-> Err("InvalidCoordinates")]
    [] x < width /\ y < height
       /\ is_mine(sq[xy_to_idx(x, y)]) /\ ~sq[xy_to_idx(x, y)].is_flagged ->
         \* a mine that is not flagged (unprotected)
         [sq |-> [sq EXCEPT ![xy_to_idx(x, y)].is_revealed = TRUE], r |-> Ok(Explosion(x, y))]
    [] x < width /\ y < height
       /\ ~is_mine(sq[xy_to_idx(x, y)]) /\ ~sq[xy_to_idx(x, y)].is_flagged
       /\ ~sq[xy_to_idx(x, y)].is_revealed /\ sq[xy_to_idx(x, y)].numeral = 0 ->
         \* not a mine, unflagged, unrevealed, no numeral: cascade
         cascade_from(sq, x, y)
    [] x < width /\ y < height
       /\ ~is_mine(sq[xy_to_idx(x, y)]) /\ ~sq[xy_to_idx(x, y)].is_flagged
       /\ ~sq[xy_to_idx(x, y)].is_revealed /\ sq[xy_to_idx(x, y)].numeral # 0 ->
         [sq |-> [sq EXCEPT ![xy_to_idx(x, y)].is_revealed = TRUE], r |-> Ok(Revealed(x, y))]
    [] OTHER -> [sq |-> sq, r |-> Ok(NoChange)]

\* mutant: flag takes an out-of-range coordinate for a square it cannot toggle
flag_ignores_out_of_range(sq, x, y) ==
  IF x >= width \/ y >= height THEN [sq |-> sq, r |-> Ok(NoChange)]
  ELSE LET idx == xy_to_idx(x, y)
           sqr == sq[idx]
       IN IF ~sqr.is_revealed
          THEN [sq |-> [sq EXCEPT ![idx].is_flagged = ~sqr.is_flagged],
                r |-> Ok(Flagged(~sqr.is_flagged))]
          ELSE [sq |-> sq, r |-> Ok(NoChange)]

\* mutant: flag on a revealed square covers it again
flag_covers_revealed(sq, x, y) ==
  IF x >= width \/ y >= height THEN [sq |-> sq, r |-> Err("InvalidCoordinates")]
  ELSE LET idx == xy_to_idx(x, y)
           sqr == sq[idx]
       IN IF ~sqr.is_revealed
          THEN [sq |-> [sq EXCEPT ![idx].is_flagged = ~sqr.is_flagged],
                r |-> Ok(Flagged(~sqr.is_flagged))]
          ELSE [sq |-> [sq EXCEPT ![idx].is_revealed = FALSE], r |-> Ok(NoChange)]

\* mutant: flag sets the flag and never clears it
flag_only_sets(sq, x, y) ==
  IF x >= width \/ y >= height THEN [sq |-> sq, r |-> Err("InvalidCoordinates")]
  ELSE LET idx == xy_to_idx(x, y)
           sqr == sq[idx]
       IN IF ~sqr.is_revealed
          THEN [sq |-> [sq EXCEPT ![idx].is_flagged = TRUE], r |-> Ok(Flagged(TRUE))]
          ELSE [sq |-> sq, r |-> Ok(NoChange)]

flag(sq, x, y) ==
  IF x >= width \/ y >= height THEN [sq |-> sq, r |-> Err("InvalidCoordinates")]
  ELSE LET idx == xy_to_idx(x, y)
           sqr == sq[idx]
       IN IF ~sqr.is_revealed
          THEN [sq |-> [sq EXCEPT ![idx].is_flagged = ~sqr.is_flagged],
                r |-> Ok(Flagged(~sqr.is_flagged))]
          ELSE [sq |-> sq, r |-> Ok(NoChange)]

can_chord_square(sq, x, y) ==
  IF x >= width \/ y >= height THEN Err("InvalidCoordinates")
  ELSE LET g == get_square(sq, x, y) IN
    IF ~g.ok THEN g
    ELSE IF g.v.numeral = 0 THEN Ok(TRUE)
    ELSE LET f == flagged_neighbor_count(sq, x, y) IN
      IF ~f.ok THEN f
      ELSE IF g.v.numeral = f.v THEN Ok(TRUE) ELSE Ok(FALSE)

chord(sq, x, y) ==
  IF x >= width \/ y >= height THEN [sq |-> sq, r |-> Err("InvalidCoordinates")]
  ELSE LET c == can_chord_square(sq, x, y) IN
    IF ~c.ok THEN [sq |-> sq, r |-> c]
    ELSE IF ~c.v THEN [sq |-> sq, r |-> Ok(NoChange)]
    ELSE collected(reveal_scan(sq, x, y))

\* mutant: the reveal outcome is put in front of the chord's sequence
revealchord_push_front(rv, rc) ==
  IF ~rc.r.ok THEN rc
  ELSE IF rc.r.v.t = "CascadedReveal"
       THEN [sq |-> rc.sq, r |-> Ok(CascadedReveal(<<rv>> \o rc.r.v.v))]
  ELSE IF rc.r.v = NoChange
       THEN [sq |-> rc.sq, r |-> Ok(CascadedReveal(<<rv>>))]
  ELSE [sq |-> rc.sq, r |-> Err("UnexpectedResult")]

\* the tail of revealchord once rv = self.reveal(x, y)? and the outcome rc of
\* self.chord(x, y) are known
revealchord_push(rv, rc) ==
  IF ~rc.r.ok THEN rc
  ELSE IF rc.r.v.t = "CascadedReveal"
       THEN [sq |-> rc.sq, r |-> Ok(CascadedReveal(Append(rc.r.v.v, rv)))]
  ELSE IF rc.r.v = NoChange
       THEN [sq |-> rc.sq, r |-> Ok(CascadedReveal(<<rv>>))]
  ELSE [sq |-> rc.sq, r |-> Err("UnexpectedResult")]

\* the rest of revealchord after let rv = self.reveal(x, y), whose outcome is o
revealchord_chord(o, x, y) ==
  IF ~o.r.ok THEN o
  ELSE revealchord_push(o.r.v, chord(o.sq, x, y))

revealchord(sq, x, y) == revealchord_chord(reveal(sq, x, y), x, y)

\* enum RevealType
RevealType == {"Reveal", "RevealChord", "Chord", "Flag"}

play(sq, x, y, reveal_type) ==
  CASE reveal_type = "Flag" -> flag(sq, x, y)
    [] reveal_type = "Reveal" -> reveal(sq, x, y)
    [] reveal_type = "Chord" -> chord(sq, x, y)
    [] reveal_type = "RevealChord" -> revealchord(sq, x, y)

\* one iteration of the while loop of populate_mines_around, with c the value of
\* gen_random_square_coordinates(); yields the squares and mines_placed after it
place_mine(sq, c) == [sq EXCEPT ![xy_to_idx(c[1], c[2])] = default_mine]

\* mutant: the exclusion coordinate is ignored, only occupied squares are rejected
populate_iteration_no_exclusion(sq, placed, kc, c) ==
  IF kc.some
  THEN IF ~is_mine(sq[xy_to_idx(c[1], c[2])])
       THEN [sq |-> place_mine(sq, c), placed |-> placed + 1]
       ELSE [sq |-> sq, placed |-> placed]
  ELSE [sq |-> place_mine(sq, c), placed |-> placed + 1]

populate_iteration(sq, placed, kc, c) ==
  IF kc.some
  THEN IF ~near(kc.c, c) /\ ~is_mine(sq[xy_to_idx(c[1], c[2])])
       THEN [sq |-> place_mine(sq, c), placed |-> placed + 1]
       ELSE [sq |-> sq, placed |-> placed]
  ELSE [sq |-> place_mine(sq, c), placed |-> placed + 1]

\* ------------------------------------------------------------------ queries
\* mutant: a win also needs every mine flagged
is_win_configuration_flagged_mines(sq) ==
  Cardinality({i \in DOMAIN sq : (~is_mine(sq[i]) /\ ~sq[i].is_revealed)
                                  \/ (is_mine(sq[i]) /\ ~sq[i].is_flagged)}) = 0

is_win_configuration(sq) ==
  Cardinality({i \in DOMAIN sq : ~is_mine(sq[i]) /\ ~sq[i].is_revealed}) = 0

is_loss_configuration(sq) ==
  Cardinality({i \in DOMAIN sq : is_mine(sq[i]) /\ sq[i].is_revealed}) > 0

num_flags(sq) == Cardinality({i \in DOMAIN sq : sq[i].is_flagged})

num_revealed(sq) == Cardinality({i \in DOMAIN sq : sq[i].is_revealed})

\* mutant: the mines are flagged but the flags on the other squares are left
flag_all_mines_only_adds(sq) ==
  [i \in DOMAIN sq |-> [sq[i] EXCEPT !.is_flagged = sq[i].is_flagged \/ is_mine(sq[i])]]

flag_all_mines(sq) == [i \in DOMAIN sq |-> [sq[i] EXCEPT !.is_flagged = is_mine(sq[i])]]

\* mutant: the reset hides the squares again but leaves the flags standing
reset_existing_keeps_flags(sq) ==
  [i \in DOMAIN sq |-> [sq[i] EXCEPT !.is_revealed = FALSE]]

reset_existing(sq) ==
  [i \in DOMAIN sq |-> [sq[i] EXCEPT !.is_flagged = FALSE, !.is_revealed = FALSE]]

num_mine_squares(sq) == Cardinality({i \in DOMAIN sq : is_mine(sq[i])})

\* the in-grid 8 neighbours of (x, y)
Neighbours(x, y) ==
  {c \in Cells : c # <<x, y>> /\ c[1] - x \in {-1, 0, 1} /\ c[2] - y \in {-1, 0, 1}}

\* ------------------------------------------------------------- leaderboards
\* GameDifficulty, which names the three tiers of LeaderBoards
GameDifficulty == {"Beginner", "Intermediate", "Expert"}

\* whoami::realname(): the one name the application records
realname == "player"

\* the entries of the times in T, lowest time first and, within one time, in
\* the order they have in entries
RECURSIVE stable_by_time(_, _)
stable_by_time(entries, T) ==
  IF T = {} THEN <<>>
  ELSE LET t == CHOOSE m \in T : \A u \in T : m <= u
       IN SelectSeq(entries, LAMBDA e : e.time = t) \o stable_by_time(entries, T \ {t})

\* entries.sort_by(|a, b| a.time.total_cmp(&b.time)): a stable sort on time
sort_by_time(entries) ==
  stable_by_time(entries, {entries[i].time : i \in DOMAIN entries})

\* mutant: the board is cut to its first 25 entries before it is sorted
sort_and_trim_cut_first(entries) ==
  sort_by_time(IF Len(entries) > MAX_ENTRIES_PER_BOARD
               THEN SubSeq(entries, 1, MAX_ENTRIES_PER_BOARD)
               ELSE entries)

\* LeaderBoard::sort_and_trim
sort_and_trim(entries) ==
  LET sorted == sort_by_time(entries)
  IN IF Len(sorted) > MAX_ENTRIES_PER_BOARD
     THEN SubSeq(sorted, 1, MAX_ENTRIES_PER_BOARD)
     ELSE sorted

\* LeaderBoard::add (the date of the entry is left out)
LeaderBoard_add(entries, player_name, time) ==
  sort_and_trim(Append(entries, [player_name |-> player_name, time |-> time]))

\* LeaderBoards::add
LeaderBoards_add(boards, level, player_name, time) ==
  [boards EXCEPT ![level] = LeaderBoard_add(boards[level], player_name, time)]

\* ------------------------------------------------------------ application
\* MinesOfRustApp::load_from_persistence with no saved state: no game started,
\* empty leaderboards, the default difficulty
AppConstructed ==
  /\ game_state = "NotStarted"
  /\ game_started = 0
  /\ game_finished = 0
  /\ wins = 0
  /\ losses = 0
  /\ leaderboards = [l \in GameDifficulty |-> <<>>]
  /\ detonated_on = None
  /\ difficulty = "Intermediate"
  /\ left_click_chord = FALSE
  /\ clock = 0
  /\ added = [l \in GameDifficulty |-> EmptyBag]
  /\ start_time = 0
  /\ paused_for = 0

\* GameState::game_ended
game_ended(gs) == gs = "EndedLoss" \/ gs = "EndedWin"

\* GameSettings::settings_for_difficulty. The sizes of the three difficulties
\* are constants of the program; the model plays every difficulty on one row
\* of AppW squares with one mine, with numerals in use.
settings_for_difficulty(d) == [width |-> AppW, height |-> 1, num_mines |-> 1]

\* The boards populate_mines_around(n, kc) can leave when its loop ends: every
\* way of placing mines by iterations of the loop until mines_placed reaches n.
\* The set is empty when no draw can place a mine and the loop never ends.
RECURSIVE populate_outcomes(_, _, _, _)
populate_outcomes(sq, placed, n, kc) ==
  IF placed >= n THEN {sq}
  ELSE UNION {populate_outcomes(it.sq, it.placed, n, kc) :
                it \in {i2 \in {populate_iteration(sq, placed, kc, c) : c \in Cells} :
                          i2.placed > placed}}

\* The fields of the application that one frame reads and writes, as a record
App ==
  [squares |-> squares, num_mines |-> num_mines, is_populated |-> is_populated,
   game_state |-> game_state, game_started |-> game_started,
   game_finished |-> game_finished, wins |-> wins, losses |-> losses,
   leaderboards |-> leaderboards, detonated_on |-> detonated_on,
   difficulty |-> difficulty, added |-> added, start_time |-> start_time,
   paused_for |-> paused_for]

\* MinesOfRustApp::reset_new_game
reset_new_game(a) ==
  [a EXCEPT !.squares = new_squares(settings_for_difficulty(a.difficulty).width,
                                    settings_for_difficulty(a.difficulty).height),
            !.num_mines = 0,
            !.is_populated = FALSE,
            !.game_state = "NotStarted",
            !.detonated_on = None,
            !.game_started = clock]

\* MinesOfRustApp::reset_existing_game
reset_existing_game(a) ==
  [a EXCEPT !.squares = reset_existing(a.squares),
            !.game_state = "NotStarted",
            !.game_started = clock]

\* MinesOfRustApp::start_game(first_click); placed is the board that
\* populate_mines_around leaves when the board is not populated yet
start_game(a, first_click, placed) ==
  LET sq == IF ~a.is_populated THEN placed ELSE a.squares
  IN [a EXCEPT !.squares = populate_numerals(sq),
               !.num_mines = IF ~a.is_populated
                             THEN settings_for_difficulty(a.difficulty).num_mines
                             ELSE @,
               !.is_populated = TRUE,
               !.game_started = clock,
               !.start_time = clock,
               !.paused_for = 0,
               !.game_state = "Playing"]

\* mutant: the last Explosion of the list is returned
first_losing_square_of_vec_last(play_result) ==
  LET E == {i \in DOMAIN play_result : play_result[i].t = "Explosion"}
  IN IF E = {} THEN None
     ELSE LET i == CHOOSE m \in E : \A n \in E : m >= n
          IN Some(<<play_result[i].x, play_result[i].y>>)

\* MinesOfRustApp::first_losing_square_of_vec
first_losing_square_of_vec(play_result) ==
  LET E == {i \in DOMAIN play_result : play_result[i].t = "Explosion"}
  IN IF E = {} THEN None
     ELSE LET i == CHOOSE m \in E : \A n \in E : m <= n
          IN Some(<<play_result[i].x, play_result[i].y>>)

\* MinesOfRustApp::first_losing_square
first_losing_square(play_result) ==
  IF play_result.t = "Explosion" THEN Some(<<play_result.x, play_result.y>>)
  ELSE IF play_result.t = "CascadedReveal" THEN first_losing_square_of_vec(play_result.v)
  ELSE None

\* the pointer buttons a square or the face can be clicked with
PointerButton == {"Primary", "Middle", "Secondary"}

\* mutant: a click dispatches its play whether the board is active or not
play_type_of_ignores_active(active, button, lcc) ==
  IF button = "Primary" /\ ~lcc THEN Some("Reveal")
  ELSE IF button = "Primary" /\ lcc THEN Some("RevealChord")
  ELSE IF button = "Middle" THEN Some("Chord")
  ELSE IF button = "Secondary" THEN Some("Flag")
  ELSE None

\* game_board_ui: the play type a click with button dispatches, if any
play_type_of(active, button, lcc) ==
  IF active /\ button = "Primary" /\ ~lcc THEN Some("Reveal")
  ELSE IF active /\ button = "Primary" /\ lcc THEN Some("RevealChord")
  ELSE IF active /\ button = "Middle" THEN Some("Chord")
  ELSE IF button = "Secondary" /\ active THEN Some("Flag")
  ELSE None

\* game_board_ui: the play p of the click at (x, y) is recorded in the board
\* and detonated_on is set when the result shows a losing square
played(a, p) ==
  [a EXCEPT !.squares = p.sq,
            !.detonated_on = IF first_losing_square(p.r.v).some
                             THEN first_losing_square(p.r.v) ELSE @]

\* game_board_ui once the click is known to dispatch play type pt on the
\* application a1, which start_game may just have started
dispatch(a1, x, y, pt) ==
  IF pt.some THEN played(a1, play(a1.squares, x, y, pt.c)) ELSE a1

\* MinesOfRustApp::game_board_ui for a frame in which the square at (x, y) is
\* clicked with button; resp.clicked() is a click with the primary button
game_board_ui(a, active, x, y, button, lcc, placed) ==
  dispatch(IF button = "Primary" /\ a.game_state = "NotStarted"
           THEN start_game(a, <<x, y>>, placed) ELSE a,
           x, y, play_type_of(active, button, lcc))

\* MinesOfRustApp::pause_game
pause_game(a) ==
  [a EXCEPT !.game_state = "Paused", !.game_started = clock - a.game_started]

\* mutant: the count restarts from the time of the resume
resume_game_from_now(a) ==
  [a EXCEPT !.game_state = "Playing", !.game_started = clock]

\* MinesOfRustApp::resume_game
resume_game(a) ==
  [a EXCEPT !.game_state = "Playing", !.game_started = clock - a.game_started]

\* MinesOfRustApp::toggle_pause_state
toggle_pause_state(a) ==
  IF a.game_state = "Playing" THEN pause_game(a)
  ELSE IF a.game_state = "Paused" THEN resume_game(a)
  ELSE a

\* mutant: a win is recorded but the game goes on
status_ended_win_goes_on(a) ==
  IF a.game_state = "Playing" /\ is_loss_configuration(a.squares)
  THEN [a EXCEPT !.game_state = "EndedLoss",
                 !.game_finished = clock,
                 !.losses = @ + 1]
  ELSE IF a.game_state = "Playing" /\ is_win_configuration(a.squares)
  THEN [a EXCEPT !.squares = flag_all_mines(a.squares),
                 !.game_finished = clock,
                 !.wins = @ + 1,
                 !.leaderboards =
                    LeaderBoards_add(@, a.difficulty, realname, clock - a.game_started),
                 !.added = [@ EXCEPT ![a.difficulty] =
                                @ (+) SetToBag({clock - a.game_started})]]
  ELSE a

\* status_ui: the test that ends the game on a loss or on a win
status_ended(a) ==
  IF a.game_state = "Playing" /\ is_loss_configuration(a.squares)
  THEN [a EXCEPT !.game_state = "EndedLoss",
                 !.game_finished = clock,
                 !.losses = @ + 1]
  ELSE IF a.game_state = "Playing" /\ is_win_configuration(a.squares)
  THEN [a EXCEPT !.game_state = "EndedWin",
                 !.squares = flag_all_mines(a.squares),
                 !.game_finished = clock,
                 !.wins = @ + 1,
                 !.leaderboards =
                    LeaderBoards_add(@, a.difficulty, realname, clock - a.game_started),
                 !.added = [@ EXCEPT ![a.difficulty] =
                                @ (+) SetToBag({clock - a.game_started})]]
  ELSE a

\* status_ui: the Pause button is there while Playing, the Resume button while Paused
status_buttons(a, button_clicked) ==
  IF a.game_state = "Playing" /\ button_clicked THEN pause_game(a)
  ELSE IF a.game_state = "Paused" /\ button_clicked THEN resume_game(a)
  ELSE a

\* MinesOfRustApp::status_ui
status_ui(a, button_clicked) == status_buttons(status_ended(a), button_clicked)

\* ------------------------------------------------------------------ actions
\* GameBoard::populate_numerals as one step of the board
PopulateNumerals ==
  /\ pc = "idle"
  /\ is_populated
  /\ call.op # "populate_numerals"
  /\ squares' = populate_numerals(squares)
  /\ call' = [op |-> "populate_numerals"]
  /\ result' = Ok("unit")
  /\ UNCHANGED <<width, height, num_mines, is_populated, pc, mines_placed, keep_clear>>
  /\ UNCHANGED app_vars

\* mutant: num_mines is assigned before the mine count is tested
PopulateMinesAround_assigns_first(n, kc) ==
  /\ pc = "idle"
  /\ ~is_populated
  /\ call' = [op |-> "populate_mines_around", n |-> n, kc |-> kc]
  /\ num_mines' = n
  /\ IF n > width * height
     THEN /\ result' = Err("ExcessiveMines")
          /\ UNCHANGED <<squares, is_populated, pc, mines_placed, keep_clear>>
     ELSE /\ mines_placed' = 0
          /\ keep_clear' = kc
          /\ squares' = squares
          /\ IF 0 < n
             THEN pc' = "placing" /\ result' = Pending /\ is_populated' = is_populated
             ELSE pc' = "idle" /\ result' = Ok("unit") /\ is_populated' = TRUE
  /\ UNCHANGED <<width, height>>
  /\ UNCHANGED app_vars

\* GameBoard::populate_mines_around(n, kc) up to the first test of the while
\* loop; populate_mines(n) is the call with kc = None
PopulateMinesAround(n, kc) ==
  /\ pc = "idle"
  /\ ~is_populated
  /\ call' = [op |-> "populate_mines_around", n |-> n, kc |-> kc]
  /\ IF n > width * height
     THEN /\ result' = Err("ExcessiveMines")
          /\ UNCHANGED <<num_mines, squares, is_populated, pc, mines_placed, keep_clear>>
     ELSE /\ num_mines' = n
          /\ mines_placed' = 0
          /\ keep_clear' = kc
          /\ squares' = squares
          /\ IF 0 < n
             THEN pc' = "placing" /\ result' = Pending /\ is_populated' = is_populated
             ELSE pc' = "idle" /\ result' = Ok("unit") /\ is_populated' = TRUE
  /\ UNCHANGED <<width, height>>
  /\ UNCHANGED app_vars

\* one iteration of the while loop sampling coordinate c, and the loop test
\* after it: the call returns Ok once mines_placed reaches num_mines
Sample(c) ==
  /\ pc = "placing"
  /\ LET it == populate_iteration(squares, mines_placed, keep_clear, c) IN
       /\ squares' = it.sq
       /\ mines_placed' = it.placed
       /\ IF it.placed < num_mines
          THEN UNCHANGED <<pc, result, is_populated>>
          ELSE pc' = "idle" /\ result' = Ok("unit") /\ is_populated' = TRUE
  /\ UNCHANGED <<width, height, num_mines, keep_clear, call>>
  /\ UNCHANGED app_vars

\* GameBoard::reveal(x, y)
Reveal(x, y) ==
  /\ pc = "idle"
  /\ LET rv == reveal(squares, x, y) IN
       squares' = rv.sq /\ result' = rv.r
  /\ call' = [op |-> "reveal", x |-> x, y |-> y]
  /\ UNCHANGED <<width, height, num_mines, is_populated, pc, mines_placed, keep_clear>>
  /\ UNCHANGED app_vars

\* GameBoard::flag(x, y)
Flag(x, y) ==
  /\ pc = "idle"
  /\ LET f == flag(squares, x, y) IN
       squares' = f.sq /\ result' = f.r
  /\ call' = [op |-> "flag", x |-> x, y |-> y]
  /\ UNCHANGED <<width, height, num_mines, is_populated, pc, mines_placed, keep_clear>>
  /\ UNCHANGED app_vars

\* GameBoard::chord(x, y)
Chord(x, y) ==
  /\ pc = "idle"
  /\ LET c == chord(squares, x, y) IN
       squares' = c.sq /\ result' = c.r
  /\ call' = [op |-> "chord", x |-> x, y |-> y]
  /\ UNCHANGED <<width, height, num_mines, is_populated, pc, mines_placed, keep_clear>>
  /\ UNCHANGED app_vars

\* GameBoard::revealchord(x, y)
RevealChord(x, y) ==
  /\ pc = "idle"
  /\ LET c == revealchord(squares, x, y) IN
       squares' = c.sq /\ result' = c.r
  /\ call' = [op |-> "revealchord", x |-> x, y |-> y]
  /\ UNCHANGED <<width, height, num_mines, is_populated, pc, mines_placed, keep_clear>>
  /\ UNCHANGED app_vars

\* GameBoard::reset_existing()
ResetExisting ==
  /\ pc = "idle"
  /\ squares' = reset_existing(squares)
  /\ call' = [op |-> "reset_existing"]
  /\ result' = Ok("unit")
  /\ UNCHANGED <<width, height, num_mines, is_populated, pc, mines_placed, keep_clear>>
  /\ UNCHANGED app_vars

\* GameBoard::get_square(x, y): a query, the board is left alone
GetSquare(x, y) ==
  /\ pc = "idle"
  /\ result' = get_square(squares, x, y)
  /\ call' = [op |-> "get_square", x |-> x, y |-> y]
  /\ UNCHANGED <<width, height, num_mines, squares, is_populated, pc, mines_placed,
                 keep_clear>>
  /\ UNCHANGED app_vars

\* GameBoard::can_chord_square(x, y): a query, the board is left alone
CanChordSquare(x, y) ==
  /\ pc = "idle"
  /\ result' = can_chord_square(squares, x, y)
  /\ call' = [op |-> "can_chord_square", x |-> x, y |-> y]
  /\ UNCHANGED <<width, height, num_mines, squares, is_populated, pc, mines_placed,
                 keep_clear>>
  /\ UNCHANGED app_vars

\* GameBoard::cascade_from(x, y) called directly
CascadeFrom(x, y) ==
  /\ pc = "idle"
  /\ LET c == cascade_from(squares, x, y) IN
       squares' = c.sq /\ result' = c.r
  /\ call' = [op |-> "cascade_from", x |-> x, y |-> y]
  /\ UNCHANGED <<width, height, num_mines, is_populated, pc, mines_placed, keep_clear>>
  /\ UNCHANGED app_vars

\* GameBoard::flag_all_mines()
FlagAllMines ==
  /\ pc = "idle"
  /\ squares' = flag_all_mines(squares)
  /\ call' = [op |-> "flag_all_mines"]
  /\ result' = Ok("unit")
  /\ UNCHANGED <<width, height, num_mines, is_populated, pc, mines_placed, keep_clear>>
  /\ UNCHANGED app_vars

\* GameBoard::play(x, y, reveal_type)
Play(x, y, reveal_type) ==
  /\ pc = "idle"
  /\ LET p == play(squares, x, y, reveal_type) IN
       squares' = p.sq /\ result' = p.r
  /\ call' = [op |-> "play", x |-> x, y |-> y, reveal_type |-> reveal_type]
  /\ UNCHANGED <<width, height, num_mines, is_populated, pc, mines_placed, keep_clear>>
  /\ UNCHANGED app_vars

\* ------------------------------------------- specification: mine placement
\* A new board is populated (around the first click, as start_game does, or
\* without exclusion, as new_populated does) and its numerals are computed;
\* start_game is followed by the play of the click that started the game.
InitPlace ==
  /\ width \in 1 .. MaxW
  /\ height \in 1 .. MaxH
  /\ squares = new_squares(width, height)
  /\ num_mines = 0
  /\ is_populated = FALSE
  /\ pc = "idle"
  /\ mines_placed = 0
  /\ keep_clear = None
  /\ call = [op |-> "new"]
  /\ result = Ok("unit")
  /\ AppConstructed

\* start_game and new_populated: populate_numerals right after the placement
NumeralsAfterPlacement ==
  /\ call.op = "populate_mines_around"
  /\ PopulateNumerals

\* game_board_ui: the click at first_click that ran start_game is then played
FirstReveal ==
  /\ is_populated
  /\ call.op = "populate_numerals"
  /\ keep_clear.some
  /\ Reveal(keep_clear.c[1], keep_clear.c[2])

NextPlace ==
  \/ \E n \in 0 .. MaxMines : \E kc \in {None} \cup {Some(c) : c \in Cells} :
        PopulateMinesAround(n, kc)
  \/ \E c \in Cells : Sample(c)
  \/ NumeralsAfterPlacement
  \/ FirstReveal

SpecPlace == InitPlace /\ [][NextPlace]_vars

\* The while loop keeps drawing from the random number generator for as long as
\* it runs: a draw that places a mine is eventually made whenever one exists.
SpecPlaceFair == SpecPlace /\ WF_vars(\E c \in Cells : Sample(c))

\* ------------------------------------------- specification: numerals only
\* every mine layout of every board up to NumW x NumH, as populate_mines leaves it
MineLayouts(w, h) ==
  {[i \in 0 .. (w * h - 1) |-> IF i \in m THEN default_mine ELSE default_square] :
     m \in SUBSET (0 .. (w * h - 1))}

InitNumerals ==
  /\ width \in 1 .. NumW
  /\ height \in 1 .. NumH
  /\ squares \in MineLayouts(width, height)
  /\ num_mines = num_mine_squares(squares)
  /\ is_populated = TRUE
  /\ pc = "idle"
  /\ mines_placed = num_mines
  /\ keep_clear = None
  /\ call = [op |-> "populate_mines_around", n |-> num_mines, kc |-> None]
  /\ result = Ok("unit")
  /\ AppConstructed

NextNumerals == PopulateNumerals

SpecNumerals == InitNumerals /\ [][NextNumerals]_vars

\* ------------------------------------------------------- specification: play
\* Any sequence of flag / reveal / chord / revealchord / reset_existing calls on
\* a board as new_populated(width, height, n) returns it: mines placed,
\* numerals computed, nothing revealed or flagged.
PlayDims ==
  {d \in (1 .. PlayCells) \X (1 .. PlayCells) : d[1] * d[2] <= PlayCells}

InitPlay ==
  /\ \E d \in PlayDims : width = d[1] /\ height = d[2]
  /\ \E l \in MineLayouts(width, height) :
       /\ num_mine_squares(l) <= PlayMines
       /\ squares = populate_numerals(l)
  /\ num_mines = num_mine_squares(squares)
  /\ is_populated = TRUE
  /\ pc = "idle"
  /\ mines_placed = num_mines
  /\ keep_clear = None
  /\ call = [op |-> "populate_numerals"]
  /\ result = Ok("unit")
  /\ AppConstructed

NextPlay ==
  \/ \E c \in Cells : Flag(c[1], c[2])
  \/ \E c \in Cells : Reveal(c[1], c[2])
  \/ \E c \in Cells : Chord(c[1], c[2])
  \/ \E c \in Cells : RevealChord(c[1], c[2])
  \/ ResetExisting

SpecPlay == InitPlay /\ [][NextPlay]_vars

\* ------------------------------------------------------- specification: game
\* game_board_ui passes a click to play only while the game is active, and
\* status_ui ends the game as soon as the board is lost or won
PlayWhilePlaying(x, y, reveal_type) ==
  /\ ~is_loss_configuration(squares)
  /\ ~is_win_configuration(squares)
  /\ Play(x, y, reveal_type)

NextGame ==
  \E c \in Cells : \E reveal_type \in RevealType : PlayWhilePlaying(c[1], c[2], reveal_type)

SpecGame == InitPlay /\ [][NextGame]_vars

\* ----------------------------------------------------- specification: replay
\* Free play in which the application's two other uses of the board occur:
\* start_game recomputes the numerals each time a game on the same layout
\* starts, and status_ui calls flag_all_mines in its win branch, which is
\* reached only when the loss test before it failed.
\* mutant: the win branch is reached without the loss test before it
FlagAllMinesOnWinOrLoss ==
  /\ is_win_configuration(squares)
  /\ FlagAllMines

FlagAllMinesOnWin ==
  /\ ~is_loss_configuration(squares)
  /\ is_win_configuration(squares)
  /\ FlagAllMines

NextReplay ==
  \/ NextPlay
  \/ PopulateNumerals
  \/ FlagAllMinesOnWin

SpecReplay == InitPlay /\ [][NextReplay]_vars

\* ------------------------------------------------------ specification: calls
\* Every operation of the board that takes a coordinate, called with any u32
\* pair: the squares of the board and the coordinates of the column and the row
\* just past its last ones.  flag_all_mines is called in between.
CallDims ==
  {d \in (1 .. CallCells) \X (1 .. CallCells) : d[1] * d[2] <= CallCells}

Coords == (0 .. width) \X (0 .. height)

InitCalls ==
  /\ \E d \in CallDims : width = d[1] /\ height = d[2]
  /\ \E l \in MineLayouts(width, height) :
       /\ num_mine_squares(l) <= CallMines
       /\ squares = populate_numerals(l)
  /\ num_mines = num_mine_squares(squares)
  /\ is_populated = TRUE
  /\ pc = "idle"
  /\ mines_placed = num_mines
  /\ keep_clear = None
  /\ call = [op |-> "populate_numerals"]
  /\ result = Ok("unit")
  /\ AppConstructed

NextCalls ==
  \/ \E c \in Coords : GetSquare(c[1], c[2])
  \/ \E c \in Coords : Flag(c[1], c[2])
  \/ \E c \in Coords : Reveal(c[1], c[2])
  \/ \E c \in Coords : Chord(c[1], c[2])
  \/ \E c \in Coords : RevealChord(c[1], c[2])
  \/ \E c \in Coords : CanChordSquare(c[1], c[2])
  \/ \E c \in Coords : CascadeFrom(c[1], c[2])
  \/ \E c \in Coords : \E reveal_type \in RevealType : Play(c[1], c[2], reveal_type)
  \/ FlagAllMines

SpecCalls == InitCalls /\ [][NextCalls]_vars

\* ------------------------------------------------ specification: application
\* One frame of the application (MinesOfRustApp::on_update) is one step: the
\* input of the frame is handled by the panel it belongs to, and status_ui
\* closes the frame. A frame receives one input; the clock advances between
\* frames.

\* the application is as the frame left it in the record a
Frame(a) ==
  /\ squares' = a.squares
  /\ num_mines' = a.num_mines
  /\ is_populated' = a.is_populated
  /\ game_state' = a.game_state
  /\ game_started' = a.game_started
  /\ game_finished' = a.game_finished
  /\ wins' = a.wins
  /\ losses' = a.losses
  /\ leaderboards' = a.leaderboards
  /\ detonated_on' = a.detonated_on
  /\ difficulty' = a.difficulty
  /\ added' = a.added
  /\ start_time' = a.start_time
  /\ paused_for' = a.paused_for
  /\ UNCHANGED <<width, height, pc, mines_placed, keep_clear, call, result,
                 left_click_chord, clock>>

\* on_update, top panel: Ctrl+P is pressed
KeyTogglePause ==
  /\ game_state \in {"Playing", "Paused"}
  /\ Frame(status_ui(toggle_pause_state(App), FALSE))

\* on_update, top panel: the face is clicked, with the primary button for a
\* new game (as Ctrl+N) and with the secondary button to replay the same
\* board (as Ctrl+R)
ClickFace(button) ==
  /\ button \in {"Primary", "Secondary"}
  /\ Frame(status_ui(IF button = "Primary"
                     THEN reset_new_game(App)
                     ELSE reset_existing_game(App), FALSE))

\* on_update, central panel: the square at (x, y) is clicked; the board is
\* not shown while the game is paused
ClickSquare(x, y, button) ==
  /\ game_state # "Paused"
  /\ (button = "Primary" /\ game_state = "NotStarted") => wins + losses < AppGames
  /\ \E placed \in IF button = "Primary" /\ game_state = "NotStarted" /\ ~is_populated
                    THEN populate_outcomes(
                           squares, 0, settings_for_difficulty(difficulty).num_mines,
                           Some(<<x, y>>))
                    ELSE {squares} :
       Frame(status_ui(game_board_ui(App, ~game_ended(game_state), x, y, button,
                                     left_click_chord, placed), FALSE))

\* on_update, bottom panel, options_ui: another difficulty is selected
SelectDifficulty(d) ==
  /\ d # difficulty
  /\ Frame(status_ui(reset_new_game([App EXCEPT !.difficulty = d]), FALSE))

\* on_update, bottom panel, options_ui: the "Left Click Chords" toggle
ToggleLeftClickChord ==
  /\ left_click_chord' = ~left_click_chord
  /\ UNCHANGED <<width, height, num_mines, squares, is_populated, pc, mines_placed,
                 keep_clear, call, result>>
  /\ UNCHANGED <<game_state, game_started, game_finished, wins, losses, leaderboards,
                 detonated_on, difficulty, clock, added, start_time, paused_for>>

\* on_update, bottom panel, status_ui: the Pause or the Resume button is clicked
ClickPauseResume ==
  /\ game_state \in {"Playing", "Paused"}
  /\ Frame(status_ui(App, TRUE))

\* time passes between two frames
Tick ==
  /\ clock < AppClock
  /\ clock' = clock + 1
  /\ paused_for' = IF game_state = "Paused" THEN paused_for + 1 ELSE paused_for
  /\ UNCHANGED <<width, height, num_mines, squares, is_populated, pc, mines_placed,
                 keep_clear, call, result>>
  /\ UNCHANGED <<game_state, game_started, game_finished, wins, losses, leaderboards,
                 detonated_on, difficulty, left_click_chord, added, start_time>>

\* the application as load_from_persistence builds it
InitApp ==
  /\ width = settings_for_difficulty("Intermediate").width
  /\ height = settings_for_difficulty("Intermediate").height
  /\ squares = new_squares(width, height)
  /\ num_mines = 0
  /\ is_populated = FALSE
  /\ pc = "idle"
  /\ mines_placed = 0
  /\ keep_clear = None
  /\ call = [op |-> "new"]
  /\ result = Ok("unit")
  /\ AppConstructed

NextApp ==
  \/ KeyTogglePause
  \/ \E button \in {"Primary", "Secondary"} : ClickFace(button)
  \/ \E c \in Cells : \E button \in PointerButton : ClickSquare(c[1], c[2], button)
  \/ \E d \in GameDifficulty : SelectDifficulty(d)
  \/ ToggleLeftClickChord
  \/ ClickPauseResume

SpecApp == InitApp /\ [][NextApp]_vars

\* One game on the clock: the frames of a game from its first click on, with
\* pauses, and the time that passes between them.
NextTimed ==
  \/ KeyTogglePause
  \/ \E c \in Cells : \E button \in PointerButton : ClickSquare(c[1], c[2], button)
  \/ ClickPauseResume
  \/ Tick

SpecTimed == InitApp /\ [][NextTimed]_vars

\* ----------------------------------------------- specification: leaderboards
\* the total number of entries ever added
TotalAdded ==
  BagCardinality(added["Beginner"]) + BagCardinality(added["Intermediate"])
    + BagCardinality(added["Expert"])

\* LeaderBoards::add(level, player_name, time)
LeaderBoardsAdd(level, time) ==
  /\ TotalAdded < LeaderAdds
  /\ leaderboards' = LeaderBoards_add(leaderboards, level, realname, time)
  /\ added' = [added EXCEPT ![level] = @ (+) SetToBag({time})]
  /\ call' = [op |-> "leaderboards_add"]
  /\ result' = Ok("unit")
  /\ UNCHANGED <<width, height, num_mines, squares, is_populated, pc, mines_placed,
                 keep_clear>>
  /\ UNCHANGED <<game_state, game_started, game_finished, wins, losses, detonated_on,
                 difficulty, left_click_chord, clock, start_time, paused_for>>

\* A sequence of LeaderBoards::add calls on the default (empty) leaderboards,
\* with a faster and a slower time: enough calls for a tier to overflow.
InitLeader ==
  /\ width = 1
  /\ height = 1
  /\ squares = new_squares(1, 1)
  /\ num_mines = 0
  /\ is_populated = FALSE
  /\ pc = "idle"
  /\ mines_placed = 0
  /\ keep_clear = None
  /\ call = [op |-> "new"]
  /\ result = Ok("unit")
  /\ AppConstructed

NextLeader ==
  \E level \in GameDifficulty : \E time \in {1, 2} : LeaderBoardsAdd(level, time)

SpecLeader == InitLeader /\ [][NextLeader]_vars

\* ------------------------------------------------------------------ claims
\* C1: after populate_numerals() on any board, every non-mine cell's numeral
\* equals the number of mine cells among its in-grid 8 neighbours, and the call
\* returns Ok (neighbour positions off the grid contribute 0, never an error).
C1_NumeralsCountMinedNeighbours ==
  call.op = "populate_numerals" =>
    /\ result.ok
    /\ \A c \in Cells :
         LET s == squares[xy_to_idx(c[1], c[2])] IN
         ~is_mine(s) =>
           s.numeral = Cardinality({n \in Neighbours(c[1], c[2]) :
                                      is_mine(squares[xy_to_idx(n[1], n[2])])})

\* an interior cell with all 8 neighbours in the grid, some of them mined, and a
\* corner cell of the same board, after populate_numerals
C1_Witness ==
  /\ call.op = "populate_numerals"
  /\ width = 3 /\ height = 3
  /\ ~is_mine(squares[xy_to_idx(1, 1)])
  /\ squares[xy_to_idx(1, 1)].numeral = 3
  /\ ~is_mine(squares[xy_to_idx(0, 0)])
  /\ squares[xy_to_idx(0, 0)].numeral = 0

\* C2: when populate_mines_around(n, Some(c)) has returned Ok on a new board,
\* no mine lies on c or on any of its 8 neighbours, exactly n squares are
\* mines, num_mines = n and is_populated is true.
C2_ExclusionZoneAndCount ==
  (call.op = "populate_mines_around" /\ call.kc.some /\ result.ok) =>
    /\ \A d \in Cells :
         (d[1] - call.kc.c[1] \in {-1, 0, 1} /\ d[2] - call.kc.c[2] \in {-1, 0, 1})
           => ~is_mine(squares[xy_to_idx(d[1], d[2])])
    /\ num_mine_squares(squares) = call.n
    /\ num_mines = call.n
    /\ is_populated

\* two mines placed around an exclusion coordinate whose 8 neighbours are all
\* in the grid
C2_Witness ==
  /\ call.op = "populate_mines_around" /\ call.kc.some /\ result.ok
  /\ width = 4 /\ height = 3
  /\ call.kc.c = <<1, 1>>
  /\ call.n = 2
  /\ num_mine_squares(squares) = 2

\* C3: when populate_mines(n) (no exclusion coordinate) has returned Ok on a
\* new board, the number of mine squares equals n = num_mines, whatever the
\* sampled coordinates were.
C3_MineCountWithoutExclusion ==
  (call.op = "populate_mines_around" /\ ~call.kc.some /\ result.ok) =>
    /\ num_mine_squares(squares) = call.n
    /\ num_mines = call.n

\* C4: the first click is not losing: after populate_mines_around(n, Some(c))
\* and populate_numerals(), reveal(c) returns a CascadedReveal, never an
\* Explosion; c has numeral 0 and is_loss_configuration() is false afterwards.
C4_FirstClickNotLosing ==
  call.op = "reveal" =>
    /\ keep_clear = Some(<<call.x, call.y>>)
    /\ result.ok
    /\ result.v.t = "CascadedReveal"
    /\ squares[xy_to_idx(call.x, call.y)].numeral = 0
    /\ squares[xy_to_idx(call.x, call.y)].is_revealed
    /\ ~is_loss_configuration(squares)

\* the first click of a game with two mines, on a square with 8 neighbours;
\* the cascade stopped before the mines
C4_Witness ==
  /\ call.op = "reveal"
  /\ width = 4 /\ height = 3
  /\ call.x = 1 /\ call.y = 1
  /\ num_mine_squares(squares) = 2
  /\ num_revealed(squares) = 9

\* ------------------------------------------------------- claims about play
\* the square a call with coordinates addresses
Target(sq, c) == sq[xy_to_idx(c.x, c.y)]

\* the least set of cells that contains R and every cell of T that is an
\* 8-neighbour of one of its members
RECURSIVE Closure(_, _)
Closure(R, T) ==
  LET R2 == R \cup {n \in T : \E c \in R : n \in Neighbours(c[1], c[2])}
  IN IF R2 = R THEN R ELSE Closure(R2, T)

\* a set of cells together with their in-grid 8-neighbours
WithNeighbours(R) == R \cup {n \in Cells : \E c \in R : n \in Neighbours(c[1], c[2])}

NumeralsComputed(sq) == sq = populate_numerals(sq)

\* C5 as stated: after reveal(x, y) on an unrevealed, unflagged, non-mine cell
\* with numeral 0 the result is a CascadedReveal, and every unflagged cell on
\* or next to a path of unflagged zero-numeral non-mine cells from (x, y) is
\* revealed.
C5_FloodFillAlongAnyZeroPath ==
  [][(/\ call'.op = "reveal"
      /\ NumeralsComputed(squares)
      /\ ~is_mine(Target(squares, call')) /\ ~Target(squares, call').is_flagged
      /\ ~Target(squares, call').is_revealed /\ Target(squares, call').numeral = 0)
     => LET zero == {n \in Cells : LET s == squares[xy_to_idx(n[1], n[2])]
                                    IN ~is_mine(s) /\ ~s.is_flagged /\ s.numeral = 0}
            R == Closure({<<call'.x, call'.y>>}, zero)
        IN /\ result'.ok /\ result'.v.t = "CascadedReveal"
           /\ \A n \in WithNeighbours(R) :
                ~squares[xy_to_idx(n[1], n[2])].is_flagged
                  => squares'[xy_to_idx(n[1], n[2])].is_revealed]_vars

\* C5 as amended: the paths run through zero-numeral cells that were unrevealed
\* before the call; every unflagged cell on or next to such a path is revealed,
\* and no zero-numeral cell revealed by this call keeps a neighbour that is
\* both unrevealed and unflagged.
C5_FloodFillAlongUnrevealedZeroPath ==
  [][(/\ call'.op = "reveal"
      /\ NumeralsComputed(squares)
      /\ ~is_mine(Target(squares, call')) /\ ~Target(squares, call').is_flagged
      /\ ~Target(squares, call').is_revealed /\ Target(squares, call').numeral = 0)
     => LET fresh == {n \in Cells : LET s == squares[xy_to_idx(n[1], n[2])]
                                     IN /\ ~is_mine(s) /\ ~s.is_flagged
                                        /\ s.numeral = 0 /\ ~s.is_revealed}
            R == Closure({<<call'.x, call'.y>>}, fresh)
        IN /\ result'.ok /\ result'.v.t = "CascadedReveal"
           /\ \A n \in WithNeighbours(R) :
                ~squares[xy_to_idx(n[1], n[2])].is_flagged
                  => squares'[xy_to_idx(n[1], n[2])].is_revealed
           /\ \A z \in Cells :
                LET i == xy_to_idx(z[1], z[2]) IN
                (squares'[i].is_revealed /\ ~squares[i].is_revealed /\ squares'[i].numeral = 0)
                  => \A n \in Neighbours(z[1], z[2]) :
                       LET s == squares'[xy_to_idx(n[1], n[2])]
                       IN s.is_revealed \/ s.is_flagged]_vars

\* a cascade that revealed several cells and stopped at a flagged cell
C5_Witness ==
  /\ call.op = "reveal"
  /\ result.ok /\ result.v.t = "CascadedReveal"
  /\ num_revealed(squares) >= 2
  /\ num_flags(squares) >= 1
  /\ \E n \in Neighbours(call.x, call.y) :
       squares[xy_to_idx(n[1], n[2])].is_flagged /\ ~is_mine(squares[xy_to_idx(n[1], n[2])])

\* C6: reveal(x, y) on an unflagged mine marks that square revealed, returns
\* Explosion((x, y)) and changes no other square; from then on
\* is_loss_configuration() stays true until reset_existing.
C6_ExplosionAndLossPersists ==
  [][/\ (call'.op = "reveal" /\ is_mine(Target(squares, call'))
                             /\ ~Target(squares, call').is_flagged)
        => /\ result' = Ok(Explosion(call'.x, call'.y))
           /\ squares' = [squares EXCEPT ![xy_to_idx(call'.x, call'.y)].is_revealed = TRUE]
           /\ is_loss_configuration(squares')
     /\ (is_loss_configuration(squares) /\ call'.op # "reset_existing")
        => is_loss_configuration(squares')]_vars

\* a mine was detonated after other squares had been revealed, and the board is lost
C6_Witness ==
  /\ call.op = "reveal"
  /\ result = Ok(Explosion(call.x, call.y))
  /\ Target(squares, call).is_revealed
  /\ num_revealed(squares) >= 2
  /\ is_loss_configuration(squares)

\* C7: reveal(x, y) on a flagged square, mine or not, returns NoChange and
\* leaves the board unchanged; once flag(x, y) has toggled the flag off,
\* reveal(x, y) on a mine returns Explosion((x, y)).
C7_FlaggedSquareProtected ==
  [][/\ (call'.op = "reveal" /\ Target(squares, call').is_flagged)
        => (result' = Ok(NoChange) /\ squares' = squares)
     /\ (/\ call.op = "flag" /\ result = Ok(Flagged(FALSE))
         /\ call'.op = "reveal" /\ call'.x = call.x /\ call'.y = call.y
         /\ is_mine(Target(squares, call')))
        => result' = Ok(Explosion(call'.x, call'.y))]_vars

\* a reveal of a flagged mine that did nothing
C7_Witness ==
  /\ call.op = "reveal"
  /\ result = Ok(NoChange)
  /\ Target(squares, call).is_flagged
  /\ is_mine(Target(squares, call))
  /\ ~Target(squares, call).is_revealed

\* C8 as stated: reveal(x, y) on an already revealed square, mine or not,
\* returns NoChange and leaves the board unchanged.
C8_RevealedSquareNoChange ==
  [][(call'.op = "reveal" /\ Target(squares, call').is_revealed)
     => (result' = Ok(NoChange) /\ squares' = squares)]_vars

\* C8 as amended: reveal(x, y) on an already revealed square leaves the board
\* unchanged; it returns NoChange when the square is not a mine and
\* Explosion((x, y)) again when the square is a revealed, unflagged mine.
C8_RevealedSquareBoardUnchanged ==
  [][(call'.op = "reveal" /\ Target(squares, call').is_revealed)
     => /\ squares' = squares
        /\ result' = IF is_mine(Target(squares, call')) /\ ~Target(squares, call').is_flagged
                     THEN Ok(Explosion(call'.x, call'.y))
                     ELSE Ok(NoChange)]_vars

\* a second reveal of a revealed numbered square: an unflagged non-mine square
\* yields NoChange only when it was revealed before the call
C8_Witness ==
  /\ call.op = "reveal"
  /\ result = Ok(NoChange)
  /\ Target(squares, call).is_revealed
  /\ ~is_mine(Target(squares, call))
  /\ ~Target(squares, call).is_flagged
  /\ Target(squares, call).numeral > 0

\* C9: reveal(x, y) on a non-mine, unflagged, unrevealed square with numeral > 0
\* returns Revealed((x, y)), sets that square's revealed bit and changes
\* nothing else of the board.
C9_SingleReveal ==
  [][(/\ call'.op = "reveal"
      /\ ~is_mine(Target(squares, call')) /\ ~Target(squares, call').is_flagged
      /\ ~Target(squares, call').is_revealed /\ Target(squares, call').numeral > 0)
     => /\ result' = Ok(Revealed(call'.x, call'.y))
        /\ squares' = [squares EXCEPT ![xy_to_idx(call'.x, call'.y)].is_revealed = TRUE]
        /\ UNCHANGED <<width, height, num_mines, is_populated>>]_vars

\* a numbered square revealed on its own, next to squares still hidden
C9_Witness ==
  /\ call.op = "reveal"
  /\ result = Ok(Revealed(call.x, call.y))
  /\ Target(squares, call).numeral = 2
  /\ num_revealed(squares) = 1

\* the number of flagged squares among the in-grid 8 neighbours of (x, y)
FlaggedAmongNeighbours(sq, x, y) ==
  Cardinality({n \in Neighbours(x, y) : sq[xy_to_idx(n[1], n[2])].is_flagged})

\* C10: chord(x, y) returns NoChange and leaves the board unchanged whenever
\* the target's numeral is nonzero and differs from the number of flagged
\* squares among its 8 neighbours (the target itself not counted), and
\* can_chord_square(x, y) is true iff the numeral is 0 or equals that count.
\* Stated for the squares whose numeral is meaningful, those that are not mines.
C10_ChordNeedsMatchingFlags ==
  [][/\ (/\ call'.op = "chord"
         /\ ~is_mine(Target(squares, call'))
         /\ Target(squares, call').numeral # 0
         /\ Target(squares, call').numeral # FlaggedAmongNeighbours(squares, call'.x, call'.y))
        => (result' = Ok(NoChange) /\ squares' = squares)
     /\ \A c \in Cells :
          LET cc == can_chord_square(squares', c[1], c[2])
              s == squares'[xy_to_idx(c[1], c[2])]
          IN ~is_mine(s) =>
               /\ cc.ok
               /\ cc.v <=> (s.numeral = 0
                             \/ s.numeral = FlaggedAmongNeighbours(squares', c[1], c[2]))]_vars

\* the outcome (sq2, res) is what revealchord(x, y) has to give when rv is the
\* outcome of its reveal(x, y) and rc the outcome of the chord(x, y) after it
MergesOutcomes(rv, rc, sq2, res) ==
  /\ rv.r.ok /\ rc.r.ok
  /\ res.ok /\ res.v.t = "CascadedReveal"
  /\ rc.r.v.t \in {"CascadedReveal", "NoChange"}
  /\ rc.r.v.t = "CascadedReveal" => res.v.v = Append(rc.r.v.v, rv.r.v)
  /\ rc.r.v.t = "NoChange" => res.v.v = <<rv.r.v>>
  /\ sq2 = rc.sq

MergesRevealAndChord(rv, x, y, sq2, res) ==
  MergesOutcomes(rv, chord(rv.sq, x, y), sq2, res)

\* C11: for in-range (x, y) and any board, revealchord(x, y) returns
\* Ok(CascadedReveal(v)), never UnexpectedResult; reveal(x, y) acts on the board
\* first and chord(x, y) on the board it leaves; v is the chord's sequence with
\* the reveal outcome appended last when the chord gave a CascadedReveal, and
\* the one-element sequence of the reveal outcome when the chord gave NoChange.
C11_RevealChordMerges ==
  [][call'.op = "revealchord"
     => MergesRevealAndChord(reveal(squares, call'.x, call'.y),
                             call'.x, call'.y, squares', result')]_vars

\* a revealchord whose reveal uncovered a numbered square and whose chord then ran
C11_Witness ==
  /\ call.op = "revealchord"
  /\ result.ok /\ result.v.t = "CascadedReveal"
  /\ Len(result.v.v) = 10
  /\ result.v.v[10] = Revealed(call.x, call.y)

\* C12: flag(x, y) on an unrevealed square with flag f sets the flag to ~f,
\* returns Flagged(~f) and changes nothing else; flag(x, y) once more returns
\* Flagged(f) and gives back the board as it was; on a revealed square flag
\* returns NoChange and changes nothing.
C12_FlagRoundTrip ==
  [][call'.op = "flag"
     => LET t == Target(squares, call')
            idx == xy_to_idx(call'.x, call'.y)
        IN IF ~t.is_revealed
           THEN /\ result' = Ok(Flagged(~t.is_flagged))
                /\ squares' = [squares EXCEPT ![idx].is_flagged = ~t.is_flagged]
                /\ flag(squares', call'.x, call'.y)
                     = [sq |-> squares, r |-> Ok(Flagged(t.is_flagged))]
                /\ UNCHANGED <<width, height, num_mines, is_populated>>
           ELSE result' = Ok(NoChange) /\ squares' = squares]_vars

\* a flag taken off again on a board where play has started
C12_Witness ==
  /\ call.op = "flag"
  /\ result = Ok(Flagged(FALSE))
  /\ ~Target(squares, call).is_flagged
  /\ num_revealed(squares) >= 1

\* --------------------------------------------- claims about coordinate checks
\* C13: with x >= width or y >= height, each of get_square, flag, reveal, chord,
\* revealchord, can_chord_square, cascade_from and play (any reveal type)
\* returns the InvalidCoordinates error and leaves the board unchanged.
C13_OutOfRangeRejected ==
  [][(/\ call'.op \in {"get_square", "flag", "reveal", "chord", "revealchord",
                       "can_chord_square", "cascade_from", "play"}
      /\ (call'.x >= width \/ call'.y >= height))
     => /\ result' = Err("InvalidCoordinates")
        /\ UNCHANGED <<width, height, num_mines, squares, is_populated>>]_vars

\* a play past the last column whose index would fall on a square of the board,
\* refused on a board that had been played on
C13_Witness ==
  /\ call.op = "play"
  /\ call.x >= width /\ call.y < height
  /\ xy_to_idx(call.x, call.y) \in DOMAIN squares
  /\ result = Err("InvalidCoordinates")
  /\ num_revealed(squares) >= 1

\* ----------------------------------------------- claims about mine placement
\* C14: populate_mines_around(n, k), and populate_mines(n) which is the call
\* with k = None, return ExcessiveMines exactly when n > width*height, and then
\* the board is unchanged: no mine is placed, num_mines keeps its value and
\* is_populated stays false.
C14_ExcessiveMinesRejected ==
  [][/\ (pc = "idle" /\ call'.op = "populate_mines_around")
        => /\ (result' = Err("ExcessiveMines")) <=> (call'.n > width * height)
           /\ call'.n > width * height
              => /\ UNCHANGED <<squares, num_mines, is_populated, width, height>>
                 /\ ~is_populated'
                 /\ num_mine_squares(squares') = 0
     /\ result' = Err("ExcessiveMines")
        => (call'.op = "populate_mines_around" /\ call'.n > width * height)]_vars

\* a request for more mines than the board has squares was refused
C14_Witness ==
  /\ call.op = "populate_mines_around"
  /\ call.n > width * height
  /\ call.kc.some
  /\ result = Err("ExcessiveMines")
  /\ ~is_populated /\ num_mines = 0

\* C15: for every n <= width*height and every exclusion coordinate c,
\* populate_mines_around(n, Some(c)) eventually returns with is_populated = true
\* when the sampling is fair; the loop never runs forever.
C15_PlacementTerminates ==
  (pc = "placing" /\ keep_clear.some /\ num_mines <= width * height) ~> is_populated

\* ------------------------------------------------- claims about win and loss
\* C16: in every board state is_win_configuration() is true iff no non-mine
\* square is unrevealed, whatever the flags and whether or not mines are
\* revealed, and is_loss_configuration() is true iff some mine is revealed.
C16_WinLossPredicates ==
  /\ is_win_configuration(squares)
       <=> (\A i \in DOMAIN squares : is_mine(squares[i]) \/ squares[i].is_revealed)
  /\ is_loss_configuration(squares)
       <=> (\E i \in DOMAIN squares : is_mine(squares[i]) /\ squares[i].is_revealed)
  /\ \A i \in DOMAIN squares :
       /\ is_win_configuration([squares EXCEPT ![i].is_flagged = ~@])
            = is_win_configuration(squares)
       /\ is_mine(squares[i])
            => is_win_configuration([squares EXCEPT ![i].is_revealed = ~@])
                 = is_win_configuration(squares)

\* a won board whose mine is neither flagged nor revealed, with a flag left on
\* the board from before
C16_Witness ==
  /\ is_win_configuration(squares) /\ ~is_loss_configuration(squares)
  /\ num_mines = 2 /\ num_flags(squares) = 1 /\ num_revealed(squares) >= 1
  /\ \E i \in DOMAIN squares : is_mine(squares[i]) /\ ~squares[i].is_flagged

\* C17: from a populated board with numerals computed and nothing revealed,
\* after any sequence of play(x, y, reveal_type) calls each made while the
\* board is neither won nor lost, is_win_configuration() and
\* is_loss_configuration() are never both true.
C17_WinLossExclusive ==
  ~(is_win_configuration(squares) /\ is_loss_configuration(squares))

\* a chord that uncovered the last hidden squares next to a flagged mine
C17_Witness ==
  /\ call.op = "play" /\ call.reveal_type = "Chord"
  /\ result.ok /\ result.v.t = "CascadedReveal"
  /\ is_win_configuration(squares) /\ ~is_loss_configuration(squares)
  /\ num_mines >= 1 /\ num_flags(squares) = num_mines

\* ------------------------------------------------------- claims: a scenario
\* the 3x3 board whose only mine is at (2,2)
MineAtCornerOf3x3 ==
  /\ width = 3 /\ height = 3 /\ is_populated
  /\ {i \in DOMAIN squares : is_mine(squares[i])} = {xy_to_idx(2, 2)}

\* C18: on a 3x3 board whose only mine is at (2,2), with numerals computed,
\* (1,1), (2,1) and (1,2) have numeral 1 and every other non-mine square
\* numeral 0; reveal(0,0) returns a CascadedReveal after which the 8 non-mine
\* squares are revealed, (2,2) is not, is_win_configuration() is true and
\* is_loss_configuration() is false.
C18_CornerMineScenario ==
  /\ (MineAtCornerOf3x3 /\ call.op \in {"populate_numerals", "reveal"})
     => \A c \in Cells \ {<<2, 2>>} :
          squares[xy_to_idx(c[1], c[2])].numeral
            = IF c \in {<<1, 1>>, <<2, 1>>, <<1, 2>>} THEN 1 ELSE 0
  /\ (MineAtCornerOf3x3 /\ call.op = "reveal" /\ call.x = 0 /\ call.y = 0)
     => /\ result.ok /\ result.v.t = "CascadedReveal"
        /\ \A c \in Cells \ {<<2, 2>>} : squares[xy_to_idx(c[1], c[2])].is_revealed
        /\ ~squares[xy_to_idx(2, 2)].is_revealed
        /\ is_win_configuration(squares)
        /\ ~is_loss_configuration(squares)

\* the scenario played: the mine placed around the first click (0,0), numerals
\* computed, (0,0) revealed
C18_Witness ==
  /\ MineAtCornerOf3x3
  /\ keep_clear = Some(<<0, 0>>)
  /\ call = [op |-> "reveal", x |-> 0, y |-> 0]
  /\ num_revealed(squares) = 8
  /\ squares[xy_to_idx(1, 1)].numeral = 1

\* ----------------------------------------------------- claims: frame effects
\* C19: no flag, reveal, chord, revealchord or play call changes the kind or the
\* numeral of any square, the number of mine squares, num_mines, width, height,
\* is_populated, or the number of squares, which stays width*height.
C19_PlayKeepsMinePlacement ==
  [][call'.op \in {"flag", "reveal", "chord", "revealchord", "play"}
     => /\ DOMAIN squares' = 0 .. (width * height - 1)
        /\ DOMAIN squares' = DOMAIN squares
        /\ \A i \in DOMAIN squares :
             /\ squares'[i].square_type = squares[i].square_type
             /\ squares'[i].numeral = squares[i].numeral
        /\ num_mine_squares(squares') = num_mine_squares(squares)
        /\ UNCHANGED <<width, height, num_mines, is_populated>>]_vars

\* a play call that detonated a mine, after which the mine is still a mine
C19_Witness ==
  /\ call.op = "play" /\ call.reveal_type \in {"Reveal", "RevealChord"}
  /\ call.x < width /\ call.y < height
  /\ is_mine(Target(squares, call)) /\ Target(squares, call).is_revealed
  /\ num_mine_squares(squares) = num_mines /\ num_mines = 1

\* C20: reset_existing() clears is_flagged and is_revealed on every square and
\* leaves every square's kind and numeral, num_mines, is_populated, width and
\* height unchanged; afterwards num_flags() = 0, num_revealed() = 0 and
\* is_loss_configuration() is false.
C20_ResetExistingKeepsLayout ==
  [][call'.op = "reset_existing"
     => /\ DOMAIN squares' = DOMAIN squares
        /\ \A i \in DOMAIN squares :
             /\ ~squares'[i].is_flagged /\ ~squares'[i].is_revealed
             /\ squares'[i].square_type = squares[i].square_type
             /\ squares'[i].numeral = squares[i].numeral
        /\ UNCHANGED <<width, height, num_mines, is_populated>>
        /\ num_flags(squares') = 0
        /\ num_revealed(squares') = 0
        /\ ~is_loss_configuration(squares')]_vars

\* a mined board put back to its hidden state with its numerals kept
C20_Witness ==
  /\ call.op = "reset_existing"
  /\ num_mines = 2 /\ num_mine_squares(squares) = 2
  /\ \E i \in DOMAIN squares : ~is_mine(squares[i]) /\ squares[i].numeral = 2
  /\ num_flags(squares) = 0 /\ num_revealed(squares) = 0

\* C21: flag_all_mines() makes every cell's flagged bit equal to whether it is
\* a mine (mines flagged, flags on the other cells removed) and leaves the
\* revealed bit, the kind and the numeral of every cell unchanged; afterwards
\* num_flags() equals the number of mine cells.
C21_FlagAllMinesFrame ==
  [][call'.op = "flag_all_mines" =>
       /\ DOMAIN squares' = DOMAIN squares
       /\ \A i \in DOMAIN squares :
            /\ squares'[i].is_flagged = is_mine(squares[i])
            /\ squares'[i].is_revealed = squares[i].is_revealed
            /\ squares'[i].square_type = squares[i].square_type
            /\ squares'[i].numeral = squares[i].numeral
       /\ num_flags(squares') = num_mine_squares(squares)]_vars

\* flag_all_mines has run on a board with a mine and a revealed square
C21_Witness ==
  /\ call.op = "flag_all_mines"
  /\ num_mine_squares(squares) >= 1
  /\ num_revealed(squares) >= 1
  /\ num_flags(squares) = num_mine_squares(squares)

\* the coordinates of the Explosion outcomes of a result tree, at any depth
RECURSIVE ExplosionsIn(_)
ExplosionsIn(o) ==
  IF o.t = "Explosion" THEN {<<o.x, o.y>>}
  ELSE IF o.t = "CascadedReveal" THEN UNION {ExplosionsIn(o.v[i]) : i \in DOMAIN o.v}
  ELSE {}

\* C25: a permitted chord reveals only neighbours: when chord(x, y) is called
\* on an unrevealed target whose numeral is nonzero and none of whose 8
\* neighbours has numeral 0, the target's own revealed bit is unchanged by the
\* call, and the result holds no Explosion((x, y)) for the target itself.
C25_ChordLeavesTarget ==
  [][(/\ call'.op = "chord"
      /\ ~Target(squares, call').is_revealed
      /\ Target(squares, call').numeral # 0
      /\ \A n \in Neighbours(call'.x, call'.y) : squares[xy_to_idx(n[1], n[2])].numeral # 0
      /\ can_chord_square(squares, call'.x, call'.y) = Ok(TRUE))
       => /\ Target(squares', call').is_revealed = Target(squares, call').is_revealed
          /\ result'.ok
          /\ <<call'.x, call'.y>> \notin ExplosionsIn(result'.v)]_vars

\* the operation returned the CascadedReveal of a cascade_from or of a chord
ReturnedScan ==
  /\ call.op \in {"cascade_from", "chord"}
  /\ result.ok
  /\ result.v.t = "CascadedReveal"

RowByRow == << <<-1, -1>>, << 0, -1>>, << 1, -1>>,
               <<-1, 0>>,  << 0, 0>>,  << 1, 0>>,
               <<-1, 1>>,  << 0, 1>>,  << 1, 1>> >>

\* the scan order with dx as the outer loop and dy as the inner loop
ColumnByColumn == << <<-1, -1>>, <<-1, 0>>, <<-1, 1>>,
                     << 0, -1>>, << 0, 0>>, << 0, 1>>,
                     << 1, -1>>, << 1, 0>>, << 1, 1>> >>

\* The k-th outcome of the returned scan is the outcome of the k-th position
\* of order: a Revealed or an Explosion carries the coordinates of that
\* position, and an Explosion stands at exactly the positions that hold an
\* unflagged mine (play moves no mine, and a scan changes no flag).
ScanFollows(order) ==
  \A k \in 1 .. 9 :
    LET c == <<call.x + order[k][1], call.y + order[k][2]>>
        o == result.v.v[k]
    IN /\ o.t \in {"Revealed", "Explosion"} => <<o.x, o.y>> = c
       /\ o.t = "Explosion" <=>
            /\ c \in Cells
            /\ is_mine(squares[xy_to_idx(c[1], c[2])])
            /\ ~squares[xy_to_idx(c[1], c[2])].is_flagged

\* C27 as stated: the outcomes inside a CascadedReveal produced by cascade_from
\* or chord appear in the scan order with dy as the outer loop and dx as the
\* inner loop ((dx,dy) = (-1,-1), (0,-1), (1,-1), (-1,0), ...), so that the
\* first Explosion is that of the first mined neighbour in this order.
C27_ScanOrderRowByRow ==
  (ReturnedScan /\ Len(result.v.v) = 9) => ScanFollows(RowByRow)

\* C27 amended: the outcomes appear in the scan order with dx as the outer loop
\* and dy as the inner loop ((dx,dy) = (-1,-1), (-1,0), (-1,1), (0,-1), ...),
\* so that the first Explosion is that of the first unflagged mine of the 3x3
\* block in this order.
C27_ScanOrderColumnByColumn ==
  (ReturnedScan /\ Len(result.v.v) = 9) => ScanFollows(ColumnByColumn)

\* a chord that detonated two mines: the one below the target comes first in
\* the sequence, the one to its right second
C27_Witness ==
  /\ call.op = "chord"
  /\ result.ok
  /\ result.v.t = "CascadedReveal"
  /\ result.v.v[6] = Explosion(call.x, call.y + 1)
  /\ result.v.v[8] = Explosion(call.x + 1, call.y)

\* C28: cascade_from(x, y) on an in-range cell returns InvalidCascade, leaving
\* the board unchanged, exactly when the cell is a mine, is flagged or has a
\* numeral > 0; and no reveal, chord, revealchord or play call returns
\* InvalidCascade, on any board state.
C28_InvalidCascade ==
  [][/\ (call'.op = "cascade_from" /\ <<call'.x, call'.y>> \in Cells) =>
          /\ (result' = Err("InvalidCascade")) <=>
                (\/ is_mine(Target(squares, call'))
                 \/ Target(squares, call').is_flagged
                 \/ Target(squares, call').numeral > 0)
          /\ result' = Err("InvalidCascade") => squares' = squares
     /\ call'.op \in {"reveal", "chord", "revealchord", "play"} =>
          result' # Err("InvalidCascade")]_vars

\* cascade_from was refused on a numbered square that is neither a mine nor flagged
C28_Witness ==
  /\ call.op = "cascade_from"
  /\ result = Err("InvalidCascade")
  /\ <<call.x, call.y>> \in Cells
  /\ ~is_mine(Target(squares, call))
  /\ ~Target(squares, call).is_flagged
  /\ Target(squares, call).numeral > 0

\* the number of CascadedReveal nodes of a result tree
RECURSIVE CascadeNodes(_)
CascadeNodes(o) ==
  IF o.t = "CascadedReveal"
  THEN 1 + SumSeq([i \in DOMAIN o.v |-> CascadeNodes(o.v[i])])
  ELSE 0

\* The number of times cascade_from was entered and went on to its scan during
\* the call that returned outcome o: each such entry returns one CascadedReveal
\* node; the outermost node of a chord or a revealchord is built by chord or
\* revealchord itself.
CascadesEntered(op, o) ==
  IF op \in {"chord", "revealchord"} /\ o.t = "CascadedReveal"
  THEN CascadeNodes(o) - 1
  ELSE CascadeNodes(o)

\* the squares hidden in sq and revealed in sq2
NewlyRevealed(sq, sq2) == {i \in DOMAIN sq : sq2[i].is_revealed /\ ~sq[i].is_revealed}

\* C29: every reveal, chord and revealchord call returns, on every board
\* state; within one call cascade_from is entered at most once per cell,
\* namely once for each zero-numeral cell the call reveals, and at most
\* width*height cells are revealed by one play.
C29_CascadeOncePerCell ==
  [][call'.op \in {"reveal", "chord", "revealchord"} =>
       /\ result'.ok
       /\ CascadesEntered(call'.op, result'.v)
            = Cardinality({i \in NewlyRevealed(squares, squares') :
                             ~is_mine(squares[i]) /\ squares[i].numeral = 0})
       /\ Cardinality(NewlyRevealed(squares, squares')) <= width * height]_vars

\* a reveal whose cascade entered cascade_from on every cell of a four-cell board
C29_Witness ==
  /\ call.op = "reveal"
  /\ result.ok
  /\ CascadeNodes(result.v) = 4
  /\ num_revealed(squares) = 4

\* C30: a cascade never detonates: on a populated board with numerals
\* computed, reveal(x, y) on a non-mine cell reveals no mine cell and its
\* result tree contains no Explosion at any nesting depth, whatever the flags.
C30_CascadeNeverDetonates ==
  [][(/\ call'.op = "reveal"
      /\ NumeralsComputed(squares)
      /\ ~is_mine(Target(squares, call')))
       => /\ result'.ok
          /\ ExplosionsIn(result'.v) = {}
          /\ \A i \in DOMAIN squares :
               is_mine(squares[i]) => squares'[i].is_revealed = squares[i].is_revealed]_vars

\* a reveal that cascaded over blank squares on a board that has a mine and a flag
C30_Witness ==
  /\ call.op = "reveal"
  /\ result.ok
  /\ CascadeNodes(result.v) >= 2
  /\ num_mine_squares(squares) >= 1
  /\ num_flags(squares) >= 1
  /\ ~is_loss_configuration(squares)

\* ------------------------------------------- claims about the leaderboards
\* the number of entries of a board with time t
EntriesWithTime(entries, t) == Cardinality({i \in DOMAIN entries : entries[i].time = t})

\* The entries of tier l are in non-decreasing order of time, number at most
\* MAX_ENTRIES_PER_BOARD, and are the min(k, MAX_ENTRIES_PER_BOARD) lowest
\* times among the k times ever added to the tier: they are taken from what
\* was added, and whatever was left out is no faster than any entry kept.
TierHoldsLowest(l) ==
  LET e == leaderboards[l]
      k == BagCardinality(added[l])
  IN /\ \A i \in 1 .. (Len(e) - 1) : e[i].time <= e[i + 1].time
     /\ Len(e) <= MAX_ENTRIES_PER_BOARD
     /\ Len(e) = IF k < MAX_ENTRIES_PER_BOARD THEN k ELSE MAX_ENTRIES_PER_BOARD
     /\ \A i \in DOMAIN e : BagIn(e[i].time, added[l])
     /\ \A t \in BagToSet(added[l]) :
          /\ EntriesWithTime(e, t) <= CopiesIn(t, added[l])
          /\ EntriesWithTime(e, t) < CopiesIn(t, added[l])
               => \A i \in DOMAIN e : e[i].time <= t

\* C22: after any sequence of LeaderBoards::add calls, each tier's entries are
\* in non-decreasing order of time, number at most 25 (MAX_ENTRIES_PER_BOARD)
\* and are exactly the min(k, 25) lowest-time entries among the k entries ever
\* added to that tier; an add to one tier leaves the other two unchanged.
\* (Stated for the tier of each add: the other tiers are as the adds to them
\* left them.)
C22_LeaderBoardsSortedAndTrimmed ==
  [][\A l \in GameDifficulty :
       added'[l] # added[l] =>
         /\ TierHoldsLowest(l)'
         /\ \A m \in GameDifficulty \ {l} :
              leaderboards'[m] = leaderboards[m] /\ added'[m] = added[m]]_vars

\* a full tier that has dropped a slower entry while another tier holds one
C22_Witness ==
  /\ Len(leaderboards["Beginner"]) = MAX_ENTRIES_PER_BOARD
  /\ BagCardinality(added["Beginner"]) = MAX_ENTRIES_PER_BOARD + 1
  /\ CopiesIn(2, added["Beginner"]) = 2
  /\ EntriesWithTime(leaderboards["Beginner"], 2) = 1

\* ------------------------------------------- claims about the application
\* the frame added an entry to the leaderboards
AddsEntry == added' # added

\* the frame ended a game
EndsGame == game_ended(game_state') /\ ~game_ended(game_state)

\* C23: the application adds a leaderboard entry only in a frame whose
\* status_ui finds game_state Playing (the frame began Playing, or NotStarted
\* and its click started the game), is_loss_configuration() false and
\* is_win_configuration() true, and that frame moves game_state to EndedWin;
\* an ended game stays as it is until a reset to NotStarted, so that at most
\* one entry is added between two resets; and exactly one of wins and losses
\* is incremented, by one, per ended game.
C23_EntryOnlyOnWin ==
  [][/\ AddsEntry =>
          /\ game_state \in {"NotStarted", "Playing"}
          /\ game_state' = "EndedWin"
          /\ is_win_configuration(squares')
          /\ ~is_loss_configuration(squares')
          /\ Len(leaderboards'[difficulty]) = Len(leaderboards[difficulty]) + 1
     /\ game_ended(game_state) =>
          /\ game_state' \in {game_state, "NotStarted"}
          /\ ~AddsEntry
     /\ (EndsGame /\ game_state' = "EndedWin") =>
          AddsEntry /\ wins' = wins + 1 /\ losses' = losses
     /\ (EndsGame /\ game_state' = "EndedLoss") =>
          ~AddsEntry /\ wins' = wins /\ losses' = losses + 1
     /\ ~EndsGame =>
          ~AddsEntry /\ wins' = wins /\ losses' = losses /\ leaderboards' = leaderboards]_vars

\* a game of the Expert difficulty was won and stands on the Expert leaderboard
C23_Witness ==
  /\ game_state = "EndedWin"
  /\ difficulty = "Expert"
  /\ wins = 1
  /\ losses = 0
  /\ Len(leaderboards["Expert"]) = 1

\* the time of the entry the frame added to the leaderboard of the difficulty
RecordedTime ==
  CHOOSE t \in BagToSet(added'[difficulty']) :
    CopiesIn(t, added'[difficulty']) = CopiesIn(t, added[difficulty']) + 1

\* C24 as stated: the elapsed time recorded on the leaderboard for a win equals
\* the timestamp at which the win was detected (game_finished) minus the
\* timestamp at which start_game started that game, for every sequence of
\* pause_game / resume_game steps between the two.
C24_ElapsedSinceStart ==
  [][AddsEntry => RecordedTime = game_finished' - start_time']_vars

\* C24 amended: the elapsed time recorded for a win equals game_finished minus
\* the timestamp at which start_game started that game, minus the time the
\* game spent paused between the two.
C24_ElapsedWithoutPauses ==
  [][AddsEntry =>
       /\ RecordedTime = game_finished' - start_time' - paused_for'
       /\ game_finished' = clock]_vars

\* a game won at time 2 after one unit of play and one unit of pause
C24_Witness ==
  /\ game_state = "EndedWin"
  /\ game_finished = 2
  /\ start_time = 0
  /\ paused_for = 1
  /\ Len(leaderboards[difficulty]) = 1
  /\ leaderboards[difficulty][1].time = 1

\* ------------------------------------------------------------ claims C31..C37

\* C33: populate_numerals() assigns numerals only to non-mine cells: after it
\* every mine cell's numeral is still 0, and every cell's numeral lies in 0..8,
\* for every mine layout (a mine whose 8 neighbours are all mines included).
C33_MineNumeralsStayZero ==
  call.op = "populate_numerals" =>
    \A i \in DOMAIN squares :
      /\ is_mine(squares[i]) => squares[i].numeral = 0
      /\ squares[i].numeral \in 0 .. 8

\* C34: populate_numerals() is idempotent and independent of play state:
\* called again after any sequence of flag / reveal / chord / revealchord /
\* reset_existing operations, it leaves every cell's numeral, revealed bit and
\* flagged bit exactly as they were.
C34_PopulateNumeralsAgain ==
  [][call'.op = "populate_numerals" =>
       /\ result'.ok
       /\ \A i \in DOMAIN squares :
            /\ squares'[i].numeral = squares[i].numeral
            /\ squares'[i].is_revealed = squares[i].is_revealed
            /\ squares'[i].is_flagged = squares[i].is_flagged]_vars

\* the numerals recomputed on a board with a revealed numbered square, a
\* flagged mine and a numeral above zero on the mine
C34_Witness ==
  /\ call.op = "populate_numerals"
  /\ \E i \in DOMAIN squares :
       /\ ~is_mine(squares[i]) /\ squares[i].is_revealed /\ squares[i].numeral > 0
  /\ \E i \in DOMAIN squares :
       /\ is_mine(squares[i]) /\ squares[i].is_flagged /\ squares[i].numeral > 0

\* C35: no cell is ever both revealed and flagged: from a board with nothing
\* revealed or flagged, after any sequence of flag, reveal, chord, revealchord,
\* reset_existing, and of flag_all_mines called as the application calls it (in
\* a win configuration that is not a loss configuration).
C35_NeverRevealedAndFlagged ==
  \A i \in DOMAIN squares : ~(squares[i].is_revealed /\ squares[i].is_flagged)

\* flag_all_mines has acted on a won board: a mine carries its flag next to a
\* revealed square, and a mine is flagged next to it that the player flagged
C35_Witness ==
  /\ call.op = "flag_all_mines"
  /\ num_mines = 2
  /\ num_flags(squares) = 2
  /\ num_revealed(squares) = 2

\* C36: revealing is monotone under play: no flag, reveal, chord or revealchord
\* call (play dispatches to one of them) changes a revealed cell back to
\* unrevealed, so num_revealed() never decreases, and a true
\* is_loss_configuration() or is_win_configuration() stays true until
\* reset_existing.
C36_RevealedStaysRevealed ==
  [][call'.op \in {"flag", "reveal", "chord", "revealchord"} =>
       /\ \A i \in DOMAIN squares : squares[i].is_revealed => squares'[i].is_revealed
       /\ num_revealed(squares') >= num_revealed(squares)
       /\ is_loss_configuration(squares) => is_loss_configuration(squares')
       /\ is_win_configuration(squares) => is_win_configuration(squares')]_vars

\* a flag call on a revealed square of a board that is won and lost at once:
\* three squares are revealed, a mine among them
C36_Witness ==
  /\ call.op = "flag"
  /\ result = Ok(NoChange)
  /\ num_revealed(squares) = 3
  /\ is_loss_configuration(squares)
  /\ is_win_configuration(squares)

\* the coordinates of the Explosion outcomes of a result tree in depth-first
\* order, and of a list of result trees
RECURSIVE ExplosionsDepthFirst(_), ExplosionsDepthFirstOfVec(_)
ExplosionsDepthFirst(o) ==
  IF o.t = "Explosion" THEN << <<o.x, o.y>> >>
  ELSE IF o.t = "CascadedReveal" THEN ExplosionsDepthFirstOfVec(o.v)
  ELSE << >>

ExplosionsDepthFirstOfVec(v) ==
  IF v = << >> THEN << >>
  ELSE ExplosionsDepthFirst(Head(v)) \o ExplosionsDepthFirstOfVec(Tail(v))

\* the first Explosion of a sequence of coordinates, if any
FirstOf(E) == IF E = << >> THEN None ELSE Some(E[1])

\* the call revealed a mine
RevealsMine ==
  \E i \in DOMAIN squares :
    is_mine(squares[i]) /\ ~squares[i].is_revealed /\ squares'[i].is_revealed

\* C31: for every result returned by play on a populated board with numerals
\* computed, first_losing_square returns Some(c) iff the result tree holds an
\* Explosion at any nesting depth, c being the coordinate of the first
\* Explosion in depth-first order; a play that reveals a mine therefore sets
\* detonated_on.
C31_FirstLosingSquare ==
  [][(call'.op = "play" /\ result'.ok) =>
       /\ first_losing_square(result'.v) = FirstOf(ExplosionsDepthFirst(result'.v))
       /\ RevealsMine =>
            played(App, [sq |-> squares', r |-> result']).detonated_on
              = FirstOf(ExplosionsDepthFirst(result'.v))
       /\ RevealsMine => ExplosionsDepthFirst(result'.v) # << >>]_vars

\* a play returned a CascadedReveal that holds two Explosions, the mine under
\* the first of them revealed
C31_Witness ==
  /\ call.op = "play"
  /\ result.ok
  /\ result.v.t = "CascadedReveal"
  /\ Len(ExplosionsDepthFirst(result.v)) = 2
  /\ first_losing_square(result.v).some
  /\ Target(squares, [x |-> first_losing_square(result.v).c[1],
                      y |-> first_losing_square(result.v).c[2]]).is_revealed

\* C32: game_board_ui never dispatches a play to a board whose is_populated
\* flag is false, whichever pointer button produces the first click while
\* game_state is NotStarted: no cell is revealed or flagged before start_game
\* has placed the mines.
C32_NoPlayBeforePopulation ==
  ~is_populated => \A i \in DOMAIN squares :
                     ~squares[i].is_revealed /\ ~squares[i].is_flagged

\* the frame left the revealed bit and the flagged bit of every cell alone
BitsUnchanged ==
  \A i \in DOMAIN squares :
    /\ squares'[i].is_revealed = squares[i].is_revealed
    /\ squares'[i].is_flagged = squares[i].is_flagged

\* C37: ended and paused games are frozen: while game_state is EndedWin,
\* EndedLoss or Paused no play reaches the board, so no cell's revealed or
\* flagged bit changes until a reset or resume_game; game_state leaves EndedWin
\* and EndedLoss only through a reset to NotStarted; Paused is entered only
\* from Playing and left only to Playing or by a reset.
C37_EndedAndPausedFrozen ==
  [][/\ game_ended(game_state) =>
          \/ game_state' = game_state /\ BitsUnchanged
          \/ game_state' = "NotStarted"
     /\ game_state = "Paused" =>
          \/ game_state' \in {"Paused", "Playing"} /\ BitsUnchanged
          \/ game_state' = "NotStarted"
     /\ (game_state' = "Paused" /\ game_state # "Paused") => game_state = "Playing"]_vars

\* a game paused with a cell revealed and a cell flagged, and left-click
\* chording switched on meanwhile
C37_Witness ==
  /\ game_state = "Paused"
  /\ num_revealed(squares) >= 1
  /\ num_flags(squares) >= 1
  /\ left_click_chord
====
